---- MODULE Spec2Model ----
(***************************************************************************)
(* A model of the splitwise-integrator receipt bot: the ReceiptInfo data   *)
(* model (core/receipt_info.py), the duplicate detector and the ledger     *)
(* wrapper (core/splitwise_service.py), the Telegram conversation         *)
(* handlers (bot/telegram_bot.py) and the hand-off of the OAuth token from *)
(* the web callback (web/app.py) to the session.                           *)
(*                                                                         *)
(* Python values are modelled as follows.                                  *)
(*   - str: a TLA+ string; None is the string PyNone, distinct from every  *)
(*     text the model uses (str(None) is "None").                          *)
(*   - datetime: a record [day, hour]; a date text is a record             *)
(*     [fmt, day, hour] with fmt "ymd" (YYYY-MM-DD), "iso" (isoformat),    *)
(*     "text" (anything unparseable) or "none" (None).                     *)
(*   - float: an integer number of cents; float(), str() and the two       *)
(*     percentage comparisons are tables over the amounts of the model,    *)
(*     with the binary64 results of the Python expressions.                *)
(*   - dict: a function whose DOMAIN is the set of keys present.           *)
(***************************************************************************)
EXTENDS Integers, Sequences, FiniteSets, TLC

VARIABLES
    riOp,       \* ReceiptInfo harness: the operation applied last
    riData,     \* ReceiptInfo harness: the dict handed to that operation
    riPrev,     \* ReceiptInfo harness: the object before the operation
    riCur,      \* ReceiptInfo harness: the object after the operation
    dupCand,    \* duplicate harness: the candidate ReceiptInfo
    dupHist,    \* duplicate harness: the expenses of the group in the ledger
    dupOut,     \* duplicate harness: what find_potential_duplicates returned
    conv,       \* per user: the state of the receipt ConversationHandler
    gconv,      \* per user: the state of the group ConversationHandler
    user_data,  \* per user: context.user_data
    bot_data,   \* per user: context.bot_data[user_id]['access_token']
    pending_auth, \* per user: TelegramBot._pending_auth[user_id]
    svc,        \* the splitwise_service singleton
    files,      \* the files in the uploads directory
    nuploads,   \* documents taken into processing so far
    ntokens,    \* access tokens the authentication callback has produced
    last,       \* the update handled last: user, event, handler, external calls
    poll,       \* the position of a running check_pending_auth job
    staged,     \* the tokens notify_user_authenticated has stored so far
    delivered,  \* per user: the tokens moved into user_data, in order
    hist,       \* history: per user, how the document sent last has fared
    fnOp,       \* service harness: the method called last
    fnArgs,     \* service harness: what it was called with and on
    fnOut,      \* service harness: what it returned
    web,        \* per browser: the Flask session of the web app
    webLast     \* the request the web app handled last

riVars == <<riOp, riData, riPrev, riCur>>
dupVars == <<dupCand, dupHist, dupOut>>
botVars == <<conv, gconv, user_data, bot_data, pending_auth, svc, files,
             nuploads, ntokens, last>>
authVars == <<poll, staged, delivered>>
histVars == <<hist>>
fnVars == <<fnOp, fnArgs, fnOut>>
webVars == <<web, webLast>>

-----------------------------------------------------------------------------
(* Python values *)

PyNone == "<None>"

\* str(x) for the texts of the model
Str(x) == IF x = PyNone THEN "None" ELSE x

\* bool(x) of a str-or-None value
Truthy(x) == x # PyNone /\ x # ""

\* `a or b`
Or(a, b) == IF Truthy(a) THEN a ELSE b

\* dict.get(key, default)
Get(d, k, default) == IF k \in DOMAIN d THEN d[k] ELSE default

\* {**a, **b}
Merge(a, b) ==
    [k \in (DOMAIN a) \cup (DOMAIN b) |-> IF k \in DOMAIN b THEN b[k] ELSE a[k]]

\* float(s): [ok, v] with v in cents; ok is FALSE where float() raises
float(s) ==
    CASE s \in {"45", "45.0", "45.00"} -> [ok |-> TRUE, v |-> 4500]
      [] s \in {"44", "44.0"}          -> [ok |-> TRUE, v |-> 4400]
      [] s \in {"20", "20.0"}          -> [ok |-> TRUE, v |-> 2000]
      [] s \in {"25", "25.0"}          -> [ok |-> TRUE, v |-> 2500]
      [] s \in {"19.0"}                -> [ok |-> TRUE, v |-> 1900]
      [] s \in {"17.0"}                -> [ok |-> TRUE, v |-> 1700]
      [] s \in {"16.0"}                -> [ok |-> TRUE, v |-> 1600]
      [] s \in {"1", "1.0"}            -> [ok |-> TRUE, v |-> 100]
      [] s \in {"0.95"}                -> [ok |-> TRUE, v |-> 95]
      [] s \in {"0.85"}                -> [ok |-> TRUE, v |-> 85]
      [] s \in {"0", "0.0"}            -> [ok |-> TRUE, v |-> 0]
      [] s \in {"-5", "-5.0"}          -> [ok |-> TRUE, v |-> -500]
      [] OTHER                         -> [ok |-> FALSE, v |-> 0]

\* str(f) of a float f given in cents
float_str(v) ==
    CASE v = 4500 -> "45.0"
      [] v = 4400 -> "44.0"
      [] v = 2500 -> "25.0"
      [] v = 2000 -> "20.0"
      [] v = 1900 -> "19.0"
      [] v = 1700 -> "17.0"
      [] v = 1600 -> "16.0"
      [] v = 100  -> "1.0"
      [] v = 95   -> "0.95"
      [] v = 85   -> "0.85"
      [] v = 0    -> "0.0"
      [] v = -500 -> "-5.0"

\* str.upper()
upper(s) ==
    CASE s = "eur" -> "EUR"
      [] s = "usd" -> "USD"
      [] s = "eu"  -> "EU"
      [] OTHER     -> s

Abs(x) == IF x < 0 THEN 0 - x ELSE x

-----------------------------------------------------------------------------
(* core/receipt_info.py *)

NoDateText == [fmt |-> "none", day |-> 0, hour |-> 0]

\* datetime.isoformat()
isoformat(dt) == [fmt |-> "iso", day |-> dt.day, hour |-> dt.hour]

\* a _coerce_date that tries "%Y-%m-%d" only
coerce_date_ymd_only(value, now) ==
    CASE value.fmt = "ymd" -> [day |-> value.day, hour |-> 0]
      [] OTHER             -> now

\* ReceiptInfo._coerce_date; `now` is what datetime.now() returns
coerce_date(value, now) ==
    CASE value.fmt = "ymd" -> [day |-> value.day, hour |-> 0]
      [] value.fmt = "iso" -> [day |-> value.day, hour |-> value.hour]
      [] OTHER             -> now

\* ReceiptInfo.to_dict
to_dict(r) ==
    [date          |-> isoformat(r.date),
     total         |-> r.total,
     merchant      |-> r.merchant,
     currency_code |-> r.currency_code,
     notes         |-> Or(r.notes, ""),
     category      |-> Or(r.category, ""),
     split_option  |-> r.split_option,
     users         |-> r.users]

\* ReceiptInfo.from_dict, lines 117-121: total = str(float(total_raw)),
\* or str(total_raw) when float() raises
from_dict_total(total_raw) ==
    IF total_raw # PyNone /\ float(total_raw).ok
    THEN float_str(float(total_raw).v)
    ELSE Str(total_raw)

\* ReceiptInfo.from_dict, lines 128-131
from_dict_split_option(data) ==
    IF Truthy(Get(data, "split_option", PyNone))
    THEN data["split_option"]
    ELSE IF Get(data, "split_equally", TRUE) THEN "equal" ELSE "exact"

\* ReceiptInfo.from_dict
from_dict(data, now) ==
    [date          |-> coerce_date(Get(data, "date", NoDateText), now),
     total         |-> from_dict_total(Get(data, "total", "0")),
     merchant      |-> Or(Get(data, "merchant", PyNone), "Unknown"),
     currency_code |-> upper(Or(Get(data, "currency_code", PyNone),
                                Or(Get(data, "currencyCode", PyNone), "EUR"))),
     notes         |-> Get(data, "notes", PyNone),
     category      |-> Get(data, "category", PyNone),
     split_option  |-> from_dict_split_option(data),
     users         |-> Get(data, "users", <<>>)]

\* an update that takes nothing from the prior value
update_from_dict_without_prior(r, data, now) == from_dict(data, now)

\* ReceiptInfo.update_from_dict
update_from_dict(r, data, now) == from_dict(Merge(to_dict(r), data), now)

-----------------------------------------------------------------------------
(* Inputs of the ReceiptInfo harness *)

NowValues == {[day |-> 9, hour |-> 12]}

BalancedUsers ==
    << [user_id |-> 1, paid_share |-> "45.0", owed_share |-> "20.0"],
       [user_id |-> 2, paid_share |-> "0.0",  owed_share |-> "25.0"] >>

UnbalancedUsers ==
    << [user_id |-> 1, paid_share |-> "45.0", owed_share |-> "20.0"] >>

Ymd(d) == [fmt |-> "ymd", day |-> d, hour |-> 0]
Iso(d, h) == [fmt |-> "iso", day |-> d, hour |-> h]
BadDateText == [fmt |-> "text", day |-> 0, hour |-> 0]

\* ReceiptInfo objects as the constructor accepts them (the dataclass checks
\* nothing): the objects the harness starts from
ConstructedReceipts ==
    { [date |-> [day |-> 1, hour |-> h], total |-> t, merchant |-> "Jumbo",
       currency_code |-> "EUR", notes |-> n, category |-> c,
       split_option |-> so[1], users |-> so[2]] :
        h \in {0, 23}, t \in {"45.0", "45"}, n \in {PyNone, "weekly"},
        c \in {PyNone, "Groceries"},
        so \in {<<"equal", <<>> >>, <<"exact", BalancedUsers>>} }

\* complete dicts, as the extraction schema and the correction form produce
FullDicts ==
    { [date |-> dt, total |-> t, merchant |-> "Jumbo", currency_code |-> cc,
       notes |-> "", category |-> "Groceries",
       split_option |-> so[1], users |-> so[2]] :
        dt \in {Ymd(1), Iso(2, 23)}, t \in {"45.00", "45", "abc"},
        cc \in {"eur", "USD"},
        so \in {<<"equal", <<>> >>, <<"exact", BalancedUsers>>,
                <<"exact", UnbalancedUsers>>} }

\* partial dicts: a correction that names some fields only, and the
\* degenerate inputs from_dict has defaults for
PartialDicts ==
    { [total |-> "44"],
      [total |-> "-5"],
      [total |-> PyNone],
      [notes |-> "weekly", category |-> "Fuel"],
      [notes |-> PyNone],
      [merchant |-> "", currency_code |-> ""],
      [currency_code |-> "eu"],
      [date |-> BadDateText],
      [date |-> Ymd(3)],
      [split_option |-> "exact", users |-> UnbalancedUsers],
      [split_option |-> "", split_equally |-> FALSE, users |-> BalancedUsers],
      [split_option |-> "equal", users |-> <<>>] }

RIDicts == FullDicts \cup PartialDicts

NoRI == [none |-> TRUE]
NoDict == [none |-> TRUE]

-----------------------------------------------------------------------------
(* core/splitwise_service.py: the duplicate detector *)

\* str.lower()
lower(s) ==
    CASE s = "Jumbo"      -> "jumbo"
      [] s = "Jumbo City" -> "jumbo city"
      [] s = "Shell"      -> "shell"
      [] s = "Groceries"  -> "groceries"
      [] s = "Fuel"       -> "fuel"
      [] OTHER            -> s

\* `a in b` for two lower-case texts
Contains(b, a) == a = "" \/ a = b \/ <<a, b>> \in {<<"jumbo", "jumbo city">>}

\* The (pct, target, amount) triples, in cents, for which the binary64
\* evaluation of abs(target - amount) <= (pct / 100) * target is False although
\* the amount lies exactly on the boundary: abs(1.0 - 0.85) is
\* 0.15000000000000002 and 0.15 * 1.0 is 0.15; abs(1.0 - 0.95) is
\* 0.050000000000000044 and 0.05 * 1.0 is 0.05
RoundedOut == {<<15, 100, 85>>, <<5, 100, 95>>}

\* abs(target_amount - e_amount) <= 0.15 * target_amount (pct = 15) and
\* abs(target_amount - e_amount) <= 0.05 * target_amount (pct = 5)
float_within(pct, target_amount, e_amount) ==
    /\ 100 * Abs(target_amount - e_amount) <= pct * target_amount
    /\ <<pct, target_amount, e_amount>> \notin RoundedOut

\* ReceiptInfo.from_expense: the ReceiptInfo of a ledger expense (the split
\* mode is the one the ledger reports for the expense, "equal" when it
\* reports none)
from_expense(e) ==
    [date          |-> e.date,
     total         |-> e.cost,
     merchant      |-> e.description,
     currency_code |-> e.currency_code,
     notes         |-> PyNone,
     category      |-> e.category,
     split_option  |-> Get(e, "split_option", "equal"),
     users         |-> <<>>]

\* lines 127-131: float(receipt_info.total), 0.0 when it does not parse
target_amount_of(receipt_info) ==
    IF float(receipt_info.total).ok THEN float(receipt_info.total).v ELSE 0

\* line 152: abs((target_date.date() - e_ri.date.date()).days)
date_diff_of(receipt_info, e_ri) == Abs(receipt_info.date.day - e_ri.date.day)

\* Criteria 1 without the test that the candidate's amount is positive
same_day_tier_any_amount(receipt_info, e_ri) ==
    /\ date_diff_of(receipt_info, e_ri) = 0
    /\ float_within(15, target_amount_of(receipt_info), float(e_ri.total).v)

\* lines 156-159, Criteria 1
same_day_tier(receipt_info, e_ri) ==
    /\ date_diff_of(receipt_info, e_ri) = 0
    /\ target_amount_of(receipt_info) > 0
    /\ float_within(15, target_amount_of(receipt_info), float(e_ri.total).v)

\* line 164
same_merchant(receipt_info, e_ri) ==
    LET target_merchant == lower(Or(receipt_info.merchant, ""))
        e_description   == lower(Or(e_ri.merchant, ""))
    IN  /\ target_merchant # ""
        /\ (Contains(e_description, target_merchant)
             \/ Contains(target_merchant, e_description))

\* line 165
same_category(receipt_info, e_ri) ==
    LET target_category == lower(Or(receipt_info.category, ""))
        e_category      == lower(Or(e_ri.category, ""))
    IN  target_category # "" /\ target_category = e_category

\* Criteria 2 without the test of merchant and category
near_tier_any_merchant(receipt_info, e_ri) ==
    /\ date_diff_of(receipt_info, e_ri) <= 2
    /\ target_amount_of(receipt_info) > 0
    /\ float_within(5, target_amount_of(receipt_info), float(e_ri.total).v)

\* lines 161-169, Criteria 2 (evaluated when Criteria 1 did not fire)
near_tier(receipt_info, e_ri) ==
    /\ date_diff_of(receipt_info, e_ri) <= 2
    /\ same_merchant(receipt_info, e_ri) \/ same_category(receipt_info, e_ri)
    /\ target_amount_of(receipt_info) > 0
    /\ float_within(5, target_amount_of(receipt_info), float(e_ri.total).v)

\* the body of the loop, lines 136-172: whether expense e is appended
is_duplicate(receipt_info, e) ==
    /\ ~e.deleted
    /\ float(from_expense(e).total).ok
    /\ \/ same_day_tier(receipt_info, from_expense(e))
       \/ near_tier(receipt_info, from_expense(e))

RECURSIVE duplicates_of(_, _)
duplicates_of(receipt_info, expenses) ==
    IF expenses = <<>> THEN <<>>
    ELSE (IF is_duplicate(receipt_info, Head(expenses))
          THEN <<from_expense(Head(expenses))>> ELSE <<>>)
         \o duplicates_of(receipt_info, Tail(expenses))

\* datetime <= datetime
dt_le(a, b) == a.day < b.day \/ (a.day = b.day /\ a.hour <= b.hour)

\* receipt_info.date - relativedelta(days=2) and + relativedelta(days=2),
\* lines 116-117: the time of day is kept
since_of(receipt_info) ==
    [day |-> receipt_info.date.day - 2, hour |-> receipt_info.date.hour]

until_of(receipt_info) ==
    [day |-> receipt_info.date.day + 2, hour |-> receipt_info.date.hour]

\* SplitwiseService.get_expenses(dated_after=since, dated_before=until): of
\* the expenses of the group, the ledger returns those dated in the window
\* (taken with both ends included)
get_expenses(expenses, dated_after, dated_before) ==
    SelectSeq(expenses,
              LAMBDA e : dt_le(dated_after, e.date) /\ dt_le(e.date, dated_before))

\* find_potential_duplicates that takes a failed ledger query for a match: it
\* returns the candidate itself as a duplicate
find_potential_duplicates_fail_closed(receipt_info, query) ==
    IF ~query.ok THEN <<receipt_info>>
    ELSE duplicates_of(receipt_info,
                       get_expenses(query.expenses, since_of(receipt_info),
                                    until_of(receipt_info)))

\* SplitwiseService.find_potential_duplicates; `query` is the ledger at the
\* time of the call: [ok, expenses], the expenses of the group, and ok FALSE
\* when the ledger call raises
find_potential_duplicates(receipt_info, query) ==
    IF ~query.ok THEN <<>>
    ELSE duplicates_of(receipt_info,
                       get_expenses(query.expenses, since_of(receipt_info),
                                    until_of(receipt_info)))

-----------------------------------------------------------------------------
(* Inputs of the duplicate harness *)

MaxHist == 2

Expense(d, c, desc, cat, del) ==
    [date |-> [day |-> d, hour |-> 12], cost |-> c, description |-> desc,
     currency_code |-> "EUR", category |-> cat, deleted |-> del]

Candidates ==
    { [date |-> [day |-> 3, hour |-> h], total |-> t, merchant |-> mc[1],
       currency_code |-> "EUR", notes |-> PyNone, category |-> mc[2],
       split_option |-> "equal", users |-> <<>>] :
        h \in {0, 23}, t \in {"20.0", "1.0", "0.0", "abc"},
        mc \in {<<"Jumbo", "Groceries">>, <<"", PyNone>>} }

HistoryExpenses ==
    { Expense(3, c, "Shell", "Fuel", FALSE) :
        c \in {"20.0", "19.0", "17.0", "16.0", "1.0", "0.85", "0.0", "abc"} }
    \cup
    { Expense(d, c, mc[1], mc[2], FALSE) :
        d \in {4, 5}, c \in {"20.0", "19.0", "17.0"},
        mc \in {<<"Jumbo City", "Fuel">>, <<"Shell", "Groceries">>,
                <<"Shell", "Fuel">>} }
    \cup
    { Expense(6, "20.0", "Jumbo City", "Groceries", FALSE),
      Expense(4, "0.95", "Jumbo City", "Fuel", FALSE),
      Expense(3, "20.0", "Jumbo", "Groceries", TRUE) }

-----------------------------------------------------------------------------
(* bot/telegram_bot.py: sessions, the shared service object and the ledger *)

Users == {1, 2}

MaxUploads == 1
MaxTokens == 1

NoToken == <<>>
NoFile == <<>>
NoGroup == PyNone

\* what listGroups returns for an authenticated user (get_groups, sorted)
GroupList == <<"g1", "g2">>

\* config.SPLITWISE_GROUP_ID
DefaultGroup == "g0"

\* what the extraction call returns as JSON
ExtractionResults ==
    { [date |-> Ymd(1), total |-> "45.00", merchant |-> "Jumbo",
       currency_code |-> "eur", notes |-> "", category |-> "Groceries",
       split_option |-> "equal", users |-> <<>>],
      [date |-> Ymd(1), total |-> "45.00", merchant |-> "Jumbo",
       currency_code |-> "eur", notes |-> "", category |-> "Groceries",
       split_option |-> "exact", users |-> UnbalancedUsers] }

\* web_app_data.data: "not json" does not parse, "json list" parses to a
\* value that is not a dict, everything else is the dict json.loads returns
NotJson == [bad |-> "not json"]
JsonList == [bad |-> "json list"]
CorrectionDicts ==
    { [total |-> "44"],
      [date |-> Ymd(3), split_option |-> "exact", users |-> BalancedUsers] }
Payloads == CorrectionDicts \cup {NotJson, JsonList}

\* what the ledger's expense query does for a duplicate check
LedgerQueries ==
    { [ok |-> FALSE, expenses |-> <<>>],
      [ok |-> TRUE, expenses |-> <<>>],
      [ok |-> TRUE,
       expenses |-> <<Expense(1, "44.0", "Jumbo", "Groceries", FALSE)>>] }

\* what the ledger does in one handler run: the expense query, whether
\* createExpense returns errors, whether the attachment upload fails
Ledgers ==
    {l \in [query : LedgerQueries, create_ok : BOOLEAN, attach_ok : BOOLEAN] :
        l.attach_ok => l.create_ok}

EmptyUserData ==
    [access_token |-> NoToken, group_id |-> NoGroup, groups |-> <<>>,
     receipt_file_path |-> NoFile, receipt_info |-> NoRI]

\* The part of the program state one handler run for user u works on:
\* context.user_data, context.bot_data[u], the splitwise_service singleton, the
\* uploads directory, and the external calls the run has made so far.
Ctx(u) ==
    [ud |-> user_data[u], bd |-> bot_data[u], svc |-> svc, files |-> files,
     calls |-> <<>>]

Call(c, call) == [c EXCEPT !.calls = Append(@, call)]

\* TelegramBot.is_authenticated: the answer
is_authenticated(c) == c.ud.access_token # NoToken \/ c.bd # NoToken

\* TelegramBot.is_authenticated: its effect, the move of a delivered token
\* from bot_data into user_data
is_authenticated_effect(c) ==
    IF c.ud.access_token = NoToken /\ c.bd # NoToken
    THEN [c EXCEPT !.ud.access_token = c.bd, !.bd = NoToken]
    ELSE c

\* SplitwiseService.set_oauth2_token
set_oauth2_token(c, access_token) ==
    [c EXCEPT !.svc.access_token = access_token]

\* set_current_group_id that keeps the member list it has
set_current_group_id_keeping_users(c, group_id) ==
    [c EXCEPT !.svc.current_group_id = group_id]

\* SplitwiseService.set_current_group_id
set_current_group_id(c, group_id) ==
    [c EXCEPT !.svc.current_group_id = group_id, !.svc.users = NoGroup]

\* SplitwiseService.get_users: the member cache is loaded for the active group
\* when it is empty
get_users(c) ==
    IF c.svc.users = NoGroup
    THEN [c EXCEPT !.svc.users = c.svc.current_group_id]
    ELSE c

\* TelegramBot._ensure_authenticated: [ctx, ok]
ensure_authenticated(c) ==
    IF ~is_authenticated(c)
    THEN [ctx |-> c, ok |-> FALSE]
    ELSE LET c1 == is_authenticated_effect(c)
         IN  [ctx |-> set_oauth2_token(c1, c1.ud.access_token), ok |-> TRUE]

\* TelegramBot._cleanup_receipt_data
cleanup_receipt_data(c) ==
    LET path == c.ud.receipt_file_path
        c1 == IF path # NoFile
              THEN [Call(c, [op |-> "unlink", file |-> path])
                        EXCEPT !.files = @ \ {path},
                               !.ud.receipt_file_path = NoFile]
              ELSE c
    IN  [c1 EXCEPT !.ud.receipt_info = NoRI]

\* SplitwiseService.create_expense, the ledger's createExpense operation: the
\* call is made with the service's active group and token; ok tells whether
\* it returned (the category lookup, client.createExpense and get_users for
\* the confirmation text all went through) or raised
create_expense(c, receipt_info, ledger) ==
    LET c1 == Call(c, [op |-> "createExpense", ri |-> receipt_info,
                       group_id |-> c.svc.current_group_id,
                       token |-> c.svc.access_token,
                       ok |-> ledger.create_ok])
    IN  [ctx |-> IF ledger.create_ok THEN get_users(c1) ELSE c1,
         ok |-> ledger.create_ok]

\* _finalize_expense attaching the document twice
attach_receipt_twice(c, ledger) ==
    IF c.ud.receipt_file_path # NoFile
    THEN LET call == [op |-> "attachDocument", file |-> c.ud.receipt_file_path,
                      token |-> c.svc.access_token,
                      ok |-> /\ c.svc.access_token # NoToken
                             /\ c.ud.receipt_file_path \in c.files
                             /\ ledger.attach_ok]
         IN  Call(Call(c, call), call)
    ELSE c

\* TelegramBot._finalize_expense, lines 447-458: the attachment attempt
attach_receipt(c, ledger) ==
    IF c.ud.receipt_file_path # NoFile
    THEN Call(c, [op |-> "attachDocument", file |-> c.ud.receipt_file_path,
                  token |-> c.svc.access_token,
                  ok |-> /\ c.svc.access_token # NoToken
                         /\ c.ud.receipt_file_path \in c.files
                         /\ ledger.attach_ok])
    ELSE c

\* _finalize_expense with the commit left out: after the duplicate check it
\* ends the session without calling create_expense
finalize_expense_without_commit(c, receipt_info, force, ledger) ==
    LET duplicates == IF force THEN <<>>
                      ELSE find_potential_duplicates(receipt_info, ledger.query)
        c1 == IF force THEN c
              ELSE Call(c, [op |-> "find_potential_duplicates",
                            ri |-> receipt_info,
                            group_id |-> c.svc.current_group_id,
                            token |-> c.svc.access_token,
                            ok |-> ledger.query.ok,
                            found |-> Len(duplicates)])
    IN  IF duplicates # <<>>
        THEN [ctx |-> c1, ret |-> "DUPLICATE_CHECK"]
        ELSE [ctx |-> cleanup_receipt_data(c1), ret |-> "END"]

\* TelegramBot._finalize_expense: [ctx, ret]
finalize_expense(c, receipt_info, force, ledger) ==
    LET duplicates == IF force THEN <<>>
                      ELSE find_potential_duplicates(receipt_info, ledger.query)
        c1 == IF force THEN c
              ELSE Call(c, [op |-> "find_potential_duplicates",
                            ri |-> receipt_info,
                            group_id |-> c.svc.current_group_id,
                            token |-> c.svc.access_token,
                            ok |-> ledger.query.ok,
                            found |-> Len(duplicates)])
    IN  IF duplicates # <<>>
        THEN [ctx |-> c1, ret |-> "DUPLICATE_CHECK"]
        ELSE LET r == create_expense(c1, receipt_info, ledger)
             IN  IF ~r.ok
                 THEN [ctx |-> cleanup_receipt_data(r.ctx), ret |-> "END"]
                 ELSE [ctx |-> cleanup_receipt_data(attach_receipt(r.ctx, ledger)),
                       ret |-> "END"]

-----------------------------------------------------------------------------
(* The handlers, each on the context of one run *)

\* TelegramBot.process_receipt up to its first await that hands control
\* back (line 308): [ctx, ret], ret "PENDING_DOWNLOAD" while the task goes on
\* (the conversation state is "PENDING_UNSUPPORTED" instead when the message
\* the task holds is no image and no PDF)
process_receipt_start(c) ==
    LET a == ensure_authenticated(c)
    IN  IF ~a.ok THEN [ctx |-> a.ctx, ret |-> "END"]
        ELSE IF a.ctx.ud.group_id = NoGroup THEN [ctx |-> a.ctx, ret |-> "END"]
        ELSE [ctx |-> set_current_group_id(a.ctx, a.ctx.ud.group_id),
              ret |-> "PENDING_DOWNLOAD"]

\* extract_file_info that downloads and stores whatever document it is given
process_receipt_download_any_type(c, path, supported, download_ok) ==
    IF ~download_ok
    THEN [ctx |-> Call(c, [op |-> "reply_text",
                           text |-> "An error occurred while processing your file."]),
          ret |-> "END"]
    ELSE [ctx |-> [c EXCEPT !.files = @ \cup {path},
                            !.ud.receipt_file_path = path],
          ret |-> "PENDING_EXTRACT"]

\* TelegramBot.process_receipt, lines 310-317: extract_file_info; ret
\* "PENDING_EXTRACT" when the handler goes on to the extraction.
\* supported: the message carries an image or a PDF (line 246);
\* download_ok: download_to_drive returns, and the document is then stored
\* as `path`; a failed download removes what it wrote (262-269)
process_receipt_download(c, path, supported, download_ok) ==
    IF ~supported
    THEN [ctx |-> Call(c, [op |-> "reply_text",
                           text |-> "I only support images and PDF files."]),
          ret |-> "END"]
    ELSE IF ~download_ok
    THEN [ctx |-> Call(c, [op |-> "reply_text",
                           text |-> "An error occurred while processing your file."]),
          ret |-> "END"]
    ELSE [ctx |-> [c EXCEPT !.files = @ \cup {path},
                            !.ud.receipt_file_path = path],
          ret |-> "PENDING_EXTRACT"]

\* process_receipt that calls the extraction a second time when the first
\* call raised
process_receipt_extract_retrying(c, extraction, summary_ok, now) ==
    LET c1 == Call(c, [op |-> "extract_receipt_info",
                       file |-> c.ud.receipt_file_path,
                       ok |-> extraction # NotJson])
        c1r == IF extraction = NotJson
               THEN Call(c1, [op |-> "extract_receipt_info",
                              file |-> c.ud.receipt_file_path,
                              ok |-> FALSE])
               ELSE c1
    IN  IF extraction = NotJson
        THEN [ctx |-> Call(c1r, [op |-> "reply_text", text |-> "str(e)"]),
              ret |-> "END"]
        ELSE LET c2 == [c1 EXCEPT !.ud.receipt_info =
                                       from_dict(extraction, now)]
             IN  IF summary_ok
                 THEN [ctx |-> get_users(c2), ret |-> "PENDING_REPLY"]
                 ELSE [ctx |-> cleanup_receipt_data(c2), ret |-> "END"]

\* TelegramBot.process_receipt from the extraction to the summary (lines
\* 319-363), which runs without an await after the download returned.
\* extraction: the JSON object the extraction call returned, or NotJson when
\* the call raises; summary_ok: whether get_users at line 362 returns; ret
\* "PENDING_REPLY" while the task sends the summary.
\* The call at line 324 passes user_text, a keyword extract_receipt_info of
\* core/receipt_processor.py as found in the repository does not declare; the
\* outcome of the call is taken from what that function does with a document:
\* it raises, or it returns ReceiptInfo.from_dict of the JSON object it got
\* (receipt_processor.py, lines 81-87).
process_receipt_extract(c, extraction, summary_ok, now) ==
    LET c1 == Call(c, [op |-> "extract_receipt_info",
                       file |-> c.ud.receipt_file_path,
                       ok |-> extraction # NotJson])
    IN  IF extraction = NotJson
        THEN [ctx |-> Call(c1, [op |-> "reply_text", text |-> "str(e)"]),
              ret |-> "END"]
        ELSE LET c2 == [c1 EXCEPT !.ud.receipt_info =
                                       from_dict(extraction, now)]
             IN  IF summary_ok
                 THEN [ctx |-> get_users(c2), ret |-> "PENDING_REPLY"]
                 ELSE [ctx |-> cleanup_receipt_data(c2), ret |-> "END"]

\* TelegramBot.process_receipt, lines 365-379: the summary is sent and the
\* conversation goes to CONFIRM; when sending raises, the handler cleans up
process_receipt_reply(c, reply_ok) ==
    IF reply_ok
    THEN [ctx |-> Call(c, [op |-> "reply_text", text |-> "Is this correct?"]),
          ret |-> "CONFIRM"]
    ELSE [ctx |-> cleanup_receipt_data(c), ret |-> "END"]

\* TelegramBot.confirm_receipt for the text "yes" (the only text its filter
\* lets through)
confirm_receipt(c, ledger) ==
    LET a == ensure_authenticated(c)
    IN  IF ~a.ok THEN [ctx |-> a.ctx, ret |-> "END"]
        ELSE IF a.ctx.ud.receipt_info = NoRI
        THEN [ctx |-> cleanup_receipt_data(a.ctx), ret |-> "END"]
        ELSE finalize_expense(a.ctx, a.ctx.ud.receipt_info, FALSE, ledger)

\* handle_web_app_data with the merge left out: a session that holds a receipt
\* goes on with it as it was
handle_web_app_data_without_merge(c, payload, ledger, now) ==
    LET a == ensure_authenticated(c)
    IN  IF ~a.ok THEN [ctx |-> a.ctx, ret |-> "END"]
        ELSE IF payload = NotJson THEN [ctx |-> a.ctx, ret |-> "END"]
        ELSE IF a.ctx.ud.receipt_info = NoRI /\ payload = JsonList
        THEN [ctx |-> a.ctx, ret |-> "END"]
        ELSE IF payload = JsonList THEN [ctx |-> a.ctx, ret |-> "RAISED"]
        ELSE LET current == IF a.ctx.ud.receipt_info = NoRI
                            THEN from_dict(payload, now)
                            ELSE a.ctx.ud.receipt_info
                 c1 == [a.ctx EXCEPT !.ud.receipt_info = current]
             IN  finalize_expense(c1, current, FALSE, ledger)

\* TelegramBot.handle_web_app_data; ret "RAISED" when update_from_dict raises
\* out of the handler (the payload is JSON but no dict)
handle_web_app_data(c, payload, ledger, now) ==
    LET a == ensure_authenticated(c)
    IN  IF ~a.ok THEN [ctx |-> a.ctx, ret |-> "END"]
        ELSE IF payload = NotJson THEN [ctx |-> a.ctx, ret |-> "END"]
        ELSE IF a.ctx.ud.receipt_info = NoRI /\ payload = JsonList
        THEN [ctx |-> a.ctx, ret |-> "END"]
        ELSE IF payload = JsonList THEN [ctx |-> a.ctx, ret |-> "RAISED"]
        ELSE LET current == IF a.ctx.ud.receipt_info = NoRI
                            THEN from_dict(payload, now)
                            ELSE update_from_dict(a.ctx.ud.receipt_info,
                                                  payload, now)
                 c1 == [a.ctx EXCEPT !.ud.receipt_info = current]
             IN  finalize_expense(c1, current, FALSE, ledger)

\* handle_duplicate_callback that takes every button for "proceed"
handle_duplicate_callback_proceeding(c, data, ledger) ==
    IF c.ud.receipt_info = NoRI
    THEN [ctx |-> cleanup_receipt_data(c), ret |-> "END"]
    ELSE finalize_expense(c, c.ud.receipt_info, TRUE, ledger)

\* TelegramBot.handle_duplicate_callback
handle_duplicate_callback(c, data, ledger) ==
    IF data = "duplicate_proceed"
    THEN IF c.ud.receipt_info = NoRI
         THEN [ctx |-> cleanup_receipt_data(c), ret |-> "END"]
         ELSE finalize_expense(c, c.ud.receipt_info, TRUE, ledger)
    ELSE [ctx |-> cleanup_receipt_data(c), ret |-> "END"]

\* TelegramBot.cancel
cancel(c) == [ctx |-> cleanup_receipt_data(c), ret |-> "END"]

\* TelegramBot.login: only is_authenticated acts on the state
login(c) == is_authenticated_effect(c)

\* TelegramBot.logout
logout(c) ==
    IF ~is_authenticated(c) THEN c
    ELSE [is_authenticated_effect(c) EXCEPT !.ud.access_token = NoToken,
                                            !.ud.group_id = NoGroup]

\* TelegramBot.change_group and select_group; groups is what get_groups returns
select_group(c, groups) ==
    LET a == ensure_authenticated(c)
    IN  IF ~a.ok THEN [ctx |-> a.ctx, ret |-> "END"]
        ELSE IF groups = <<>> THEN [ctx |-> a.ctx, ret |-> "END"]
        ELSE [ctx |-> [a.ctx EXCEPT !.ud.groups = groups],
              ret |-> "SELECT_GROUP"]

\* int(update.message.text.strip().split()[0]); 0 stands for ValueError
selection_of(text) ==
    CASE text = "1" -> 1
      [] text = "2" -> 2
      [] text = "3" -> 3
      [] OTHER      -> 0

\* a selection that an invalid answer ends
handle_group_selection_ending(c, text) ==
    LET a == ensure_authenticated(c)
        selection == selection_of(text)
        groups == a.ctx.ud.groups
    IN  IF ~a.ok THEN [ctx |-> a.ctx, ret |-> "END"]
        ELSE IF groups = <<>> \/ selection < 1 \/ selection > Len(groups)
        THEN [ctx |-> a.ctx, ret |-> "END"]
        ELSE [ctx |-> set_current_group_id(
                          [a.ctx EXCEPT !.ud.group_id = groups[selection]],
                          groups[selection]),
              ret |-> "END"]

\* TelegramBot.handle_group_selection
handle_group_selection(c, text) ==
    LET a == ensure_authenticated(c)
        selection == selection_of(text)
        groups == a.ctx.ud.groups
    IN  IF ~a.ok THEN [ctx |-> a.ctx, ret |-> "END"]
        ELSE IF selection = 0 THEN [ctx |-> a.ctx, ret |-> "SELECT_GROUP"]
        ELSE IF groups = <<>> \/ selection < 1 \/ selection > Len(groups)
        THEN [ctx |-> a.ctx, ret |-> "SELECT_GROUP"]
        ELSE [ctx |-> set_current_group_id(
                          [a.ctx EXCEPT !.ud.group_id = groups[selection]],
                          groups[selection]),
              ret |-> "END"]

-----------------------------------------------------------------------------
(* The dispatch of one update (TelegramBot.run, lines 685-723): the receipt *)
(* ConversationHandler, then the group ConversationHandler, then the        *)
(* command handlers and the WEB_APP_DATA handler; the first that accepts    *)
(* the update runs its callback, and an update none accepts is dropped.     *)

Texts == {"1", "3", "hello"}

Events ==
    {"document", "document_other", "yes", "cancel_text", "text", "cmd_cancel",
     "cmd_change_group",
     "cmd_login", "cmd_logout", "web_app_data", "callback"}

\* the messages the entry point of conv_handler takes (PHOTO | ATTACHMENT):
\* "document" is a photo, an image file or a PDF, "document_other" a file of
\* any other type
Documents == {"document", "document_other"}

\* conv_handler.check_update: entry points when there is no conversation, the
\* handlers of the state and the fallbacks otherwise; nothing while the state
\* is pending (block=False and no WAITING handlers)
ConvAccepts(u, ev) ==
    CASE conv[u] = "END"             -> ev \in Documents
      [] conv[u] = "CONFIRM"         ->
            ev \in {"yes", "cancel_text", "web_app_data", "text", "cmd_cancel"}
      [] conv[u] = "DUPLICATE_CHECK" -> ev \in {"callback", "cmd_cancel"}
      [] OTHER                       -> FALSE

\* group_conv_handler.check_update
GroupConvAccepts(u, ev) ==
    /\ ~ConvAccepts(u, ev)
    /\ IF gconv[u] = "END" THEN ev = "cmd_change_group"
       ELSE ev \in {"yes", "cancel_text", "text", "cmd_cancel"}

\* the handlers added after the two conversations
GlobalAccepts(u, ev) ==
    /\ ~ConvAccepts(u, ev)
    /\ ~GroupConvAccepts(u, ev)
    /\ ev \in {"cmd_login", "cmd_logout", "web_app_data"}

\* what a run of process_receipt found when it started: the uploads
\* directory, the stored path, the selected group, the access token of the
\* session and the token waiting in bot_data; what a run of
\* handle_group_selection found: the member cache and the active group of
\* the service and the selected group of the session; NoPre for every other
\* run
NoPre ==
    [files |-> {}, path |-> NoFile, group |-> NoGroup, token |-> NoToken,
     waiting |-> NoToken, members |-> NoGroup, active |-> NoGroup]

PreOf(u, h) ==
    IF h = "process_receipt"
    THEN [files |-> files, path |-> user_data[u].receipt_file_path,
          group |-> user_data[u].group_id,
          token |-> user_data[u].access_token, waiting |-> bot_data[u],
          members |-> NoGroup, active |-> NoGroup]
    ELSE IF h = "handle_group_selection"
    THEN [NoPre EXCEPT !.members = svc.users,
                       !.group = user_data[u].group_id,
                       !.active = svc.current_group_id]
    ELSE [NoPre EXCEPT !.path = user_data[u].receipt_file_path]

\* the browsers that talk to the web app
Browsers == {"b1", "b2"}

\* request.args.get('state') and session.get('oauth2_state') when the key is
\* absent: None, which is no base64 text (b64decode raises TypeError)
NoState == <<"None">>

\* a Flask session in which no key is set
EmptySession == [oauth2_state |-> NoState, oauth2_access_token |-> NoToken]

\* no browser has sent a request; issued counts the state values /authorize
\* has generated for the browser
NoSessions == [b \in Browsers |-> [session |-> EmptySession, issued |-> 0]]

\* no request has been handled
NoRequest ==
    [route |-> "none", b |-> "none", state |-> NoState, code |-> PyNone,
     session |-> EmptySession, status |-> 0]

\* the history of a user who has sent no document
NoDocument ==
    [cancelled |-> FALSE, commits |-> 0, sent |-> FALSE, revoked |-> {}]

\* no user has sent a document
NoHist == [u \in Users |-> NoDocument]

\* the record of a step that is no update of a user
NoUpdate(ev, h) ==
    [u |-> 0, ev |-> ev, arg |-> NoDict, h |-> h, calls |-> <<>>,
     state |-> "END", gstate |-> "END", receipt |-> NoRI, auth |-> FALSE,
     pre |-> NoPre]

\* what a handler run leaves behind: the session store, the delivered token,
\* the service object and the uploads directory as the run left them, and the
\* record of the run (the update, the handler, its external calls, and the
\* conversation states, working receipt and authentication it started from;
\* for process_receipt also the rest of what it started from)
Commit(u, c, ev, arg, h) ==
    /\ user_data' = [user_data EXCEPT ![u] = c.ud]
    /\ bot_data' = [bot_data EXCEPT ![u] = c.bd]
    /\ svc' = c.svc
    /\ files' = c.files
    /\ last' = [u |-> u, ev |-> ev, arg |-> arg, h |-> h, calls |-> c.calls,
                state |-> conv[u], gstate |-> gconv[u],
                receipt |-> user_data[u].receipt_info,
                auth |-> is_authenticated(Ctx(u)), pre |-> PreOf(u, h)]

\* ConversationHandler._update_state: END removes the conversation, a raised
\* callback keeps the old state
NewState(old, ret) == IF ret = "RAISED" THEN old ELSE ret

\* a photo or document arrives and no receipt conversation is open
ProcessReceipt(u) ==
    /\ nuploads < MaxUploads
    /\ \E ev \in Documents :
          LET r == process_receipt_start(Ctx(u))
          IN  /\ ConvAccepts(u, ev)
              /\ Commit(u, r.ctx, ev, NoDict, "process_receipt")
              /\ conv' = [conv EXCEPT ![u] =
                              IF r.ret = "END" THEN "END"
                              ELSE IF ev = "document" THEN "PENDING_DOWNLOAD"
                              ELSE "PENDING_UNSUPPORTED"]
              /\ nuploads' = IF r.ret = "END" THEN nuploads ELSE nuploads + 1
    /\ UNCHANGED <<gconv, pending_auth, ntokens>>

\* the process_receipt task goes on: the download, the extraction and the
\* summary text, up to the await of line 365
ProcessReceiptExtract(u) ==
    /\ conv[u] \in {"PENDING_DOWNLOAD", "PENDING_UNSUPPORTED"}
    /\ \E download_ok \in BOOLEAN, summary_ok \in BOOLEAN, now \in NowValues,
          extraction \in ExtractionResults \cup {NotJson} :
          LET d == process_receipt_download(Ctx(u), <<u, nuploads>>,
                                            conv[u] = "PENDING_DOWNLOAD",
                                            download_ok)
              r == IF d.ret = "END" THEN d
                   ELSE process_receipt_extract(d.ctx, extraction, summary_ok,
                                                now)
          IN  /\ Commit(u, r.ctx, "task", NoDict, "process_receipt")
              /\ conv' = [conv EXCEPT ![u] = r.ret]
    /\ UNCHANGED <<gconv, pending_auth, nuploads, ntokens>>

\* the process_receipt task goes on to its end: the summary is sent
ProcessReceiptReply(u) ==
    /\ conv[u] = "PENDING_REPLY"
    /\ \E reply_ok \in BOOLEAN :
          LET r == process_receipt_reply(Ctx(u), reply_ok)
          IN  /\ Commit(u, r.ctx, "task", NoDict, "process_receipt")
              /\ conv' = [conv EXCEPT ![u] = r.ret]
    /\ UNCHANGED <<gconv, pending_auth, nuploads, ntokens>>

\* "yes" in CONFIRM
ConfirmReceipt(u) ==
    /\ ConvAccepts(u, "yes")
    /\ \E ledger \in Ledgers :
          LET r == confirm_receipt(Ctx(u), ledger)
          IN  /\ Commit(u, r.ctx, "yes", NoDict, "confirm_receipt")
              /\ conv' = [conv EXCEPT ![u] = r.ret]
    /\ UNCHANGED <<gconv, pending_auth, nuploads, ntokens>>

\* "cancel" in CONFIRM, /cancel in CONFIRM and in DUPLICATE_CHECK
CancelConv(u) ==
    \E ev \in {"cancel_text", "cmd_cancel"} :
        /\ ConvAccepts(u, ev)
        /\ LET r == cancel(Ctx(u))
           IN  /\ Commit(u, r.ctx, ev, NoDict, "cancel")
               /\ conv' = [conv EXCEPT ![u] = r.ret]
        /\ UNCHANGED <<gconv, pending_auth, nuploads, ntokens>>

\* /cancel as the fallback of the group conversation
CancelGroupConv(u) ==
    /\ GroupConvAccepts(u, "cmd_cancel")
    /\ LET r == cancel(Ctx(u))
       IN  /\ Commit(u, r.ctx, "cmd_cancel", NoDict, "cancel")
           /\ gconv' = [gconv EXCEPT ![u] = r.ret]
    /\ UNCHANGED <<conv, pending_auth, nuploads, ntokens>>

\* any other text in CONFIRM: _catch_all_confirm replies and stays
CatchAllConfirm(u) ==
    /\ ConvAccepts(u, "text")
    /\ Commit(u, Ctx(u), "text", NoDict, "_catch_all_confirm")
    /\ UNCHANGED <<conv, gconv, pending_auth, nuploads, ntokens>>

\* a correction payload in CONFIRM
WebAppDataConv(u) ==
    /\ ConvAccepts(u, "web_app_data")
    /\ \E payload \in Payloads, ledger \in Ledgers, now \in NowValues :
          LET r == handle_web_app_data(Ctx(u), payload, ledger, now)
          IN  /\ Commit(u, r.ctx, "web_app_data", payload, "handle_web_app_data")
              /\ conv' = [conv EXCEPT ![u] = NewState(@, r.ret)]
    /\ UNCHANGED <<gconv, pending_auth, nuploads, ntokens>>

\* a correction payload in any other state: the handler of line 723 runs and
\* its return value is dropped
WebAppDataGlobal(u) ==
    /\ GlobalAccepts(u, "web_app_data")
    /\ \E payload \in Payloads, ledger \in Ledgers, now \in NowValues :
          LET r == handle_web_app_data(Ctx(u), payload, ledger, now)
          IN  Commit(u, r.ctx, "web_app_data", payload, "handle_web_app_data")
    /\ UNCHANGED <<conv, gconv, pending_auth, nuploads, ntokens>>

\* a button of the duplicate alert in DUPLICATE_CHECK
DuplicateCallback(u) ==
    /\ ConvAccepts(u, "callback")
    /\ \E data \in {"duplicate_proceed", "duplicate_cancel"}, ledger \in Ledgers :
          LET r == handle_duplicate_callback(Ctx(u), data, ledger)
          IN  /\ Commit(u, r.ctx, data, NoDict, "handle_duplicate_callback")
              /\ conv' = [conv EXCEPT ![u] = r.ret]
    /\ UNCHANGED <<gconv, pending_auth, nuploads, ntokens>>

\* /change_group outside the group conversation
ChangeGroup(u) ==
    /\ GroupConvAccepts(u, "cmd_change_group")
    /\ \E groups \in {GroupList, <<>>} :
          LET r == select_group(Ctx(u), groups)
          IN  /\ Commit(u, r.ctx, "cmd_change_group", NoDict, "change_group")
              /\ gconv' = [gconv EXCEPT ![u] = r.ret]
    /\ UNCHANGED <<conv, pending_auth, nuploads, ntokens>>

\* a text in SELECT_GROUP that the receipt conversation did not take
GroupSelectionOf(u, texts) ==
    \E ev \in {"yes", "cancel_text", "text"} :
        /\ GroupConvAccepts(u, ev)
        /\ \E text \in (IF ev = "text" THEN texts ELSE {ev}) :
              LET r == handle_group_selection(Ctx(u), text)
              IN  /\ Commit(u, r.ctx, ev, [text |-> text],
                            "handle_group_selection")
                  /\ gconv' = [gconv EXCEPT ![u] = r.ret]
        /\ UNCHANGED <<conv, pending_auth, nuploads, ntokens>>

GroupSelection(u) == GroupSelectionOf(u, Texts)

\* /login
Login(u) ==
    /\ GlobalAccepts(u, "cmd_login")
    /\ Commit(u, login(Ctx(u)), "cmd_login", NoDict, "login")
    /\ UNCHANGED <<conv, gconv, pending_auth, nuploads, ntokens>>

\* /logout
Logout(u) ==
    /\ GlobalAccepts(u, "cmd_logout")
    /\ Commit(u, logout(Ctx(u)), "cmd_logout", NoDict, "logout")
    /\ UNCHANGED <<conv, gconv, pending_auth, nuploads, ntokens>>

\* an update no handler accepts
Dropped(u) ==
    \E ev \in Events :
        /\ ~ConvAccepts(u, ev)
        /\ ~GroupConvAccepts(u, ev)
        /\ ~GlobalAccepts(u, ev)
        /\ Commit(u, Ctx(u), ev, NoDict, "none")
        /\ UNCHANGED <<conv, gconv, pending_auth, nuploads, ntokens>>

\* web/app.py callback, Telegram flow: TelegramBot.notify_user_authenticated
\* stages the exchanged token for the user named in the state parameter
AuthCallback(u) ==
    /\ ntokens < MaxTokens
    /\ ntokens' = ntokens + 1
    /\ pending_auth' = [pending_auth EXCEPT ![u] = <<u, ntokens + 1>>]
    /\ last' = [u |-> u, ev |-> "auth_callback", arg |-> NoDict,
                h |-> "notify_user_authenticated", calls |-> <<>>,
                state |-> conv[u], gstate |-> gconv[u],
                receipt |-> user_data[u].receipt_info,
                auth |-> is_authenticated(Ctx(u)), pre |-> NoPre]
    /\ UNCHANGED <<conv, gconv, user_data, bot_data, svc, files, nuploads>>

\* TelegramBot.check_pending_auth, the job that runs every 10 seconds
CheckPendingAuth ==
    /\ \E u \in Users : pending_auth[u] # NoToken
    /\ bot_data' = [u \in Users |->
                        IF pending_auth[u] # NoToken THEN pending_auth[u]
                        ELSE bot_data[u]]
    /\ pending_auth' = [u \in Users |-> NoToken]
    /\ last' = NoUpdate("job", "check_pending_auth")
    /\ UNCHANGED <<conv, gconv, user_data, svc, files, nuploads, ntokens>>

\* no check_pending_auth job is running
PollIdle == [pc |-> "idle", items |-> <<>>]

BotInit ==
    /\ conv = [u \in Users |-> "END"]
    /\ gconv = [u \in Users |-> "END"]
    /\ user_data = [u \in Users |-> EmptyUserData]
    /\ bot_data = [u \in Users |-> NoToken]
    /\ pending_auth = [u \in Users |-> NoToken]
    /\ svc = [access_token |-> NoToken, current_group_id |-> DefaultGroup,
              users |-> NoGroup]
    /\ files = {}
    /\ nuploads = 0
    /\ ntokens = 0
    /\ last = NoUpdate("init", "none")
    /\ hist = NoHist
    /\ fnOp = "init"
    /\ fnArgs = <<>>
    /\ fnOut = PyNone
    /\ web = NoSessions
    /\ webLast = NoRequest
    /\ poll = PollIdle
    /\ staged = {}
    /\ delivered = [u \in Users |-> <<>>]
    /\ riOp = "init"
    /\ riData = NoDict
    /\ riPrev = NoRI
    /\ riCur = NoRI
    /\ dupCand = NoRI
    /\ dupHist = [ok |-> TRUE, expenses |-> <<>>]
    /\ dupOut = <<>>

\* the sessions whose updates Spec interleaves: one user's private chat
Solo == {1}

BotNext ==
    \/ \E u \in Solo : ProcessReceipt(u) /\ UNCHANGED <<riVars, dupVars, authVars, histVars, fnVars, webVars>>
    \/ \E u \in Solo : ProcessReceiptExtract(u) /\ UNCHANGED <<riVars, dupVars, authVars, histVars, fnVars, webVars>>
    \/ \E u \in Solo : ProcessReceiptReply(u) /\ UNCHANGED <<riVars, dupVars, authVars, histVars, fnVars, webVars>>
    \/ \E u \in Solo : ConfirmReceipt(u) /\ UNCHANGED <<riVars, dupVars, authVars, histVars, fnVars, webVars>>
    \/ \E u \in Solo : CancelConv(u) /\ UNCHANGED <<riVars, dupVars, authVars, histVars, fnVars, webVars>>
    \/ \E u \in Solo : CancelGroupConv(u) /\ UNCHANGED <<riVars, dupVars, authVars, histVars, fnVars, webVars>>
    \/ \E u \in Solo : CatchAllConfirm(u) /\ UNCHANGED <<riVars, dupVars, authVars, histVars, fnVars, webVars>>
    \/ \E u \in Solo : WebAppDataConv(u) /\ UNCHANGED <<riVars, dupVars, authVars, histVars, fnVars, webVars>>
    \/ \E u \in Solo : WebAppDataGlobal(u) /\ UNCHANGED <<riVars, dupVars, authVars, histVars, fnVars, webVars>>
    \/ \E u \in Solo : DuplicateCallback(u) /\ UNCHANGED <<riVars, dupVars, authVars, histVars, fnVars, webVars>>
    \/ \E u \in Solo : ChangeGroup(u) /\ UNCHANGED <<riVars, dupVars, authVars, histVars, fnVars, webVars>>
    \/ \E u \in Solo : GroupSelection(u) /\ UNCHANGED <<riVars, dupVars, authVars, histVars, fnVars, webVars>>
    \/ \E u \in Solo : Login(u) /\ UNCHANGED <<riVars, dupVars, authVars, histVars, fnVars, webVars>>
    \/ \E u \in Solo : Logout(u) /\ UNCHANGED <<riVars, dupVars, authVars, histVars, fnVars, webVars>>
    \/ \E u \in Solo : Dropped(u) /\ UNCHANGED <<riVars, dupVars, authVars, histVars, fnVars, webVars>>
    \/ \E u \in Solo : AuthCallback(u) /\ UNCHANGED <<riVars, dupVars, authVars, histVars, fnVars, webVars>>
    \/ CheckPendingAuth /\ UNCHANGED <<riVars, dupVars, authVars, histVars, fnVars, webVars>>

-----------------------------------------------------------------------------
(* The credential hand-off (SpecAuth): the OAuth callback of the web app,   *)
(* which runs outside the bot's event loop, the check_pending_auth job and  *)
(* the handlers of two sessions.  The callback's store into _pending_auth   *)
(* is one dictionary operation and may fall between any two operations of   *)
(* the job; the job and the handlers run on the event loop and contain no   *)
(* await between their dictionary operations, so no handler runs while the  *)
(* job is under way.                                                        *)

MaxCallbacks == 2

\* str(user_id) at login line 122 and int(user_id) at line 617
str(user_id) == CASE user_id = 1 -> "1" [] user_id = 2 -> "2"
int(text) == CASE text = "1" -> 1 [] text = "2" -> 2

\* json.dumps / json.loads and base64.b64encode / b64decode as tagged values;
\* a decoder that raises yields a value without a user_id (lines 62-69)
json_dumps(d) == <<"json", d>>
json_loads(text) ==
    IF text[1] = "json" THEN text[2] ELSE [user_id |-> PyNone]
b64encode(text) == <<"b64", text>>
b64decode(text) ==
    IF text[1] = "b64" THEN text[2] ELSE <<"error", [user_id |-> PyNone]>>

\* TelegramBot.login, lines 122-125: the state parameter of the login link
login_state(user_id) == b64encode(json_dumps([user_id |-> str(user_id)]))

\* the state parameter of the web app flow: secrets of the OAuth client, no
\* base64-encoded JSON
WebState == <<"opaque", <<"opaque", [user_id |-> ""]>>>>

\* notify_user_authenticated that files every token under the first user
notify_user_authenticated_first_user(pa, user_id, access_token) ==
    [pa EXCEPT ![1] = access_token]

\* TelegramBot.notify_user_authenticated, line 617, on _pending_auth
notify_user_authenticated(pa, user_id, access_token) ==
    [pa EXCEPT ![int(user_id)] = access_token]

\* web/app.py callback, lines 46-91, on _pending_auth; access_token is what
\* the code exchange returned, NoToken when it failed.  The web app flow
\* keeps its token in the Flask session.
callback(pa, state, access_token) ==
    LET user_id == json_loads(b64decode(state)).user_id
    IN  IF user_id = PyNone THEN pa
        ELSE IF user_id = "" THEN pa
        ELSE IF access_token = NoToken THEN pa
        ELSE notify_user_authenticated(pa, user_id, access_token)

\* list(TelegramBot._pending_auth.items()), line 648: the entries in the
\* order the dictionary holds them, which is the order of their first store
Snapshots(pa) ==
    LET S == {u \in Users : pa[u] # NoToken}
    IN  {items \in [1..Cardinality(S) -> {[u |-> u, token |-> pa[u]] : u \in S}] :
            \A i, j \in 1..Cardinality(S) : i # j => items[i].u # items[j].u}

\* the tokens a handler run of user u moves into user_data
Delivery(u) ==
    LET c == is_authenticated_effect(Ctx(u))
    IN  IF c.ud.access_token # user_data[u].access_token
        THEN [delivered EXCEPT ![u] = Append(@, c.ud.access_token)]
        ELSE delivered

\* the OAuth redirect arrives at /callback; origin is the user whose login
\* link carried the state parameter, 0 for the web app flow
WebCallback ==
    /\ ntokens < MaxCallbacks
    /\ \E origin \in Users \cup {0}, exchange_ok \in BOOLEAN :
          LET state == IF origin = 0 THEN WebState ELSE login_state(origin)
              access_token == IF exchange_ok THEN <<origin, ntokens + 1>>
                              ELSE NoToken
          IN  /\ pending_auth' = callback(pending_auth, state, access_token)
              /\ ntokens' = IF exchange_ok THEN ntokens + 1 ELSE ntokens
              /\ staged' = IF pending_auth' # pending_auth
                           THEN staged \cup {access_token} ELSE staged
              /\ last' = [NoUpdate("auth_callback", "callback")
                            EXCEPT !.u = origin]
    /\ UNCHANGED <<conv, gconv, user_data, bot_data, svc, files, nuploads,
                   poll, delivered, riVars, dupVars, histVars, fnVars, webVars>>

\* check_pending_auth, lines 646-648: the job starts and copies the entries
PollSnapshot ==
    /\ poll.pc = "idle"
    /\ \E u \in Users : pending_auth[u] # NoToken
    /\ \E items \in Snapshots(pending_auth) :
          poll' = [pc |-> "store", items |-> items]
    /\ last' = NoUpdate("job", "check_pending_auth")
    /\ UNCHANGED <<conv, gconv, user_data, bot_data, pending_auth, svc, files,
                   nuploads, ntokens, staged, delivered, riVars, dupVars, histVars, fnVars, webVars>>

\* check_pending_auth, lines 651-654: the copied token goes into bot_data
PollStore ==
    /\ poll.pc = "store"
    /\ bot_data' = [bot_data EXCEPT ![poll.items[1].u] = poll.items[1].token]
    /\ poll' = [poll EXCEPT !.pc = "del"]
    /\ last' = NoUpdate("job", "check_pending_auth")
    /\ UNCHANGED <<conv, gconv, user_data, pending_auth, svc, files, nuploads,
                   ntokens, staged, delivered, riVars, dupVars, histVars, fnVars, webVars>>

\* check_pending_auth, line 658: the entry of the user is deleted, whatever
\* it holds by now, and the loop goes on
PollDelete ==
    /\ poll.pc = "del"
    /\ pending_auth' = [pending_auth EXCEPT ![poll.items[1].u] = NoToken]
    /\ poll' = IF Len(poll.items) = 1 THEN PollIdle
               ELSE [pc |-> "store", items |-> Tail(poll.items)]
    /\ last' = NoUpdate("job", "check_pending_auth")
    /\ UNCHANGED <<conv, gconv, user_data, bot_data, svc, files, nuploads,
                   ntokens, staged, delivered, riVars, dupVars, histVars, fnVars, webVars>>

\* a handler of the session calls is_authenticated (here /login, which does
\* nothing else to the state)
AuthLogin(u) ==
    /\ poll.pc = "idle"
    /\ Login(u)
    /\ delivered' = Delivery(u)
    /\ UNCHANGED <<poll, staged, riVars, dupVars, histVars, fnVars, webVars>>

\* /logout; when it logs the session out, hist records the credentials that
\* had been staged for any session by then
AuthLogout(u) ==
    /\ poll.pc = "idle"
    /\ Logout(u)
    /\ delivered' = Delivery(u)
    /\ hist' = IF is_authenticated(Ctx(u))
               THEN [hist EXCEPT ![u].revoked = staged]
               ELSE hist
    /\ UNCHANGED <<poll, staged, riVars, dupVars, fnVars, webVars>>

AuthInit ==
    /\ conv = [u \in Users |-> "END"]
    /\ gconv = [u \in Users |-> "END"]
    /\ user_data = [u \in Users |-> EmptyUserData]
    /\ bot_data = [u \in Users |-> NoToken]
    /\ pending_auth = [u \in Users |-> NoToken]
    /\ svc = [access_token |-> NoToken, current_group_id |-> DefaultGroup,
              users |-> NoGroup]
    /\ files = {}
    /\ nuploads = 0
    /\ ntokens = 0
    /\ last = NoUpdate("init", "none")
    /\ hist = NoHist
    /\ fnOp = "init"
    /\ fnArgs = <<>>
    /\ fnOut = PyNone
    /\ web = NoSessions
    /\ webLast = NoRequest
    /\ poll = PollIdle
    /\ staged = {}
    /\ delivered = [u \in Users |-> <<>>]
    /\ riOp = "init"
    /\ riData = NoDict
    /\ riPrev = NoRI
    /\ riCur = NoRI
    /\ dupCand = NoRI
    /\ dupHist = [ok |-> TRUE, expenses |-> <<>>]
    /\ dupOut = <<>>

AuthNext ==
    \/ WebCallback
    \/ PollSnapshot
    \/ PollStore
    \/ PollDelete
    \/ \E u \in Users : AuthLogin(u)
    \/ \E u \in Users : AuthLogout(u)

-----------------------------------------------------------------------------
(* Two sessions on the one splitwise_service object (SpecTwo): both users   *)
(* have logged in, and each chooses a group, uploads, confirms and answers  *)
(* the duplicate alert, in any interleaving of their handler runs.          *)

\* the texts a user answers the group list with
TwoTexts == {"1", "2"}

\* both users have sent /login after their OAuth callbacks: is_authenticated
\* has moved each token into user_data, and no handler has yet handed a
\* token or a group to the service
TwoInit ==
    /\ conv = [u \in Users |-> "END"]
    /\ gconv = [u \in Users |-> "END"]
    /\ user_data = [u \in Users |->
                        [EmptyUserData EXCEPT !.access_token = <<u, u>>]]
    /\ bot_data = [u \in Users |-> NoToken]
    /\ pending_auth = [u \in Users |-> NoToken]
    /\ svc = [access_token |-> NoToken, current_group_id |-> DefaultGroup,
              users |-> NoGroup]
    /\ files = {}
    /\ nuploads = 0
    /\ ntokens = Cardinality(Users)
    /\ last = NoUpdate("init", "none")
    /\ hist = NoHist
    /\ fnOp = "init"
    /\ fnArgs = <<>>
    /\ fnOut = PyNone
    /\ web = NoSessions
    /\ webLast = NoRequest
    /\ poll = PollIdle
    /\ staged = {<<u, u>> : u \in Users}
    /\ delivered = [u \in Users |-> << <<u, u>> >>]
    /\ riOp = "init"
    /\ riData = NoDict
    /\ riPrev = NoRI
    /\ riCur = NoRI
    /\ dupCand = NoRI
    /\ dupHist = [ok |-> TRUE, expenses |-> <<>>]
    /\ dupOut = <<>>

TwoNext ==
    \/ \E u \in Users : ChangeGroup(u) /\ UNCHANGED <<riVars, dupVars, authVars, histVars, fnVars, webVars>>
    \/ \E u \in Users : GroupSelectionOf(u, TwoTexts)
                        /\ UNCHANGED <<riVars, dupVars, authVars, histVars, fnVars, webVars>>
    \/ \E u \in Users : ProcessReceipt(u) /\ UNCHANGED <<riVars, dupVars, authVars, histVars, fnVars, webVars>>
    \/ \E u \in Users : ProcessReceiptExtract(u)
                        /\ UNCHANGED <<riVars, dupVars, authVars, histVars, fnVars, webVars>>
    \/ \E u \in Users : ProcessReceiptReply(u)
                        /\ UNCHANGED <<riVars, dupVars, authVars, histVars, fnVars, webVars>>
    \/ \E u \in Users : ConfirmReceipt(u) /\ UNCHANGED <<riVars, dupVars, authVars, histVars, fnVars, webVars>>
    \/ \E u \in Users : DuplicateCallback(u)
                        /\ UNCHANGED <<riVars, dupVars, authVars, histVars, fnVars, webVars>>

-----------------------------------------------------------------------------
(* The receipt conversation with its history (SpecLate): a user who has     *)
(* logged in chooses a group, sends documents, confirms, corrects, cancels  *)
(* and answers the duplicate alert; hist records, for the document the user *)
(* sent last, whether its conversation was cancelled and how many           *)
(* createExpense calls have succeeded from the conversation's commit on.    *)

\* the history of user u after the step that last' records
HistAfter(u) ==
    LET created == SelectSeq(last'.calls, LAMBDA call :
                                 call.op = "createExpense" /\ call.ok)
        n == IF /\ hist[u].commits = 0
                /\ conv[u] \notin {"CONFIRM", "DUPLICATE_CHECK"}
             THEN 0
             ELSE hist[u].commits + Len(created)
    IN  IF last'.h = "process_receipt" /\ last'.ev \in Documents
           /\ conv'[u] # "END"
        THEN [cancelled |-> FALSE, commits |-> 0, sent |-> TRUE,
              revoked |-> hist[u].revoked]
        ELSE IF ~hist[u].sent THEN hist[u]
        ELSE [cancelled |-> hist[u].cancelled
                            \/ (last'.h = "cancel" /\ conv[u] # "END"),
              commits |-> IF n > 2 THEN 2 ELSE n,
              sent |-> TRUE, revoked |-> hist[u].revoked]

Track(u) == hist' = [hist EXCEPT ![u] = HistAfter(u)]

LateNext ==
    \/ \E u \in Solo : ChangeGroup(u) /\ Track(u) /\ UNCHANGED <<riVars, dupVars, authVars, fnVars, webVars>>
    \/ \E u \in Solo : GroupSelection(u) /\ Track(u) /\ UNCHANGED <<riVars, dupVars, authVars, fnVars, webVars>>
    \/ \E u \in Solo : CancelGroupConv(u) /\ Track(u) /\ UNCHANGED <<riVars, dupVars, authVars, fnVars, webVars>>
    \/ \E u \in Solo : ProcessReceipt(u) /\ Track(u) /\ UNCHANGED <<riVars, dupVars, authVars, fnVars, webVars>>
    \/ \E u \in Solo : ProcessReceiptExtract(u) /\ Track(u) /\ UNCHANGED <<riVars, dupVars, authVars, fnVars, webVars>>
    \/ \E u \in Solo : ProcessReceiptReply(u) /\ Track(u) /\ UNCHANGED <<riVars, dupVars, authVars, fnVars, webVars>>
    \/ \E u \in Solo : ConfirmReceipt(u) /\ Track(u) /\ UNCHANGED <<riVars, dupVars, authVars, fnVars, webVars>>
    \/ \E u \in Solo : CancelConv(u) /\ Track(u) /\ UNCHANGED <<riVars, dupVars, authVars, fnVars, webVars>>
    \/ \E u \in Solo : CatchAllConfirm(u) /\ Track(u) /\ UNCHANGED <<riVars, dupVars, authVars, fnVars, webVars>>
    \/ \E u \in Solo : WebAppDataConv(u) /\ Track(u) /\ UNCHANGED <<riVars, dupVars, authVars, fnVars, webVars>>
    \/ \E u \in Solo : WebAppDataGlobal(u) /\ Track(u) /\ UNCHANGED <<riVars, dupVars, authVars, fnVars, webVars>>
    \/ \E u \in Solo : DuplicateCallback(u) /\ Track(u) /\ UNCHANGED <<riVars, dupVars, authVars, fnVars, webVars>>

-----------------------------------------------------------------------------
(* The ReceiptInfo harness: from_dict, update_from_dict and the round trip *)
(* applied to bounded inputs                                               *)

RIInit ==
    /\ riOp = "init"
    /\ riData = NoDict
    /\ riPrev = NoRI
    /\ riCur \in ConstructedReceipts
    /\ dupCand = NoRI
    /\ dupHist = [ok |-> TRUE, expenses |-> <<>>]
    /\ dupOut = <<>>
    /\ conv = [u \in Users |-> "END"]
    /\ gconv = [u \in Users |-> "END"]
    /\ user_data = [u \in Users |-> EmptyUserData]
    /\ bot_data = [u \in Users |-> NoToken]
    /\ pending_auth = [u \in Users |-> NoToken]
    /\ svc = [access_token |-> NoToken, current_group_id |-> DefaultGroup,
              users |-> NoGroup]
    /\ files = {}
    /\ nuploads = 0
    /\ ntokens = 0
    /\ last = NoUpdate("init", "none")
    /\ hist = NoHist
    /\ fnOp = "init"
    /\ fnArgs = <<>>
    /\ fnOut = PyNone
    /\ web = NoSessions
    /\ webLast = NoRequest
    /\ poll = PollIdle
    /\ staged = {}
    /\ delivered = [u \in Users |-> <<>>]

RIFromDict ==
    \E data \in RIDicts, now \in NowValues :
        /\ riOp' = "from_dict"
        /\ riData' = data
        /\ riPrev' = NoRI
        /\ riCur' = from_dict(data, now)

\* a correction is applied to an object that was constructed or extracted
RIUpdateFromDict ==
    \E data \in RIDicts, now \in NowValues :
        /\ riOp \in {"init", "from_dict"}
        /\ riOp' = "update_from_dict"
        /\ riData' = data
        /\ riPrev' = riCur
        /\ riCur' = update_from_dict(riCur, data, now)

RIRoundTrip ==
    \E now \in NowValues :
        /\ riOp' = "round_trip"
        /\ riData' = to_dict(riCur)
        /\ riPrev' = riCur
        /\ riCur' = from_dict(to_dict(riCur), now)

RINext ==
    \/ RIFromDict /\ UNCHANGED <<dupVars, botVars, authVars, histVars, fnVars, webVars>>
    \/ RIUpdateFromDict /\ UNCHANGED <<dupVars, botVars, authVars, histVars, fnVars, webVars>>
    \/ RIRoundTrip /\ UNCHANGED <<dupVars, botVars, authVars, histVars, fnVars, webVars>>

-----------------------------------------------------------------------------
(* The duplicate harness: find_potential_duplicates applied to a candidate *)
(* and to the expenses the ledger holds for the group                      *)

DupInit ==
    /\ dupCand \in Candidates
    /\ dupHist = [ok |-> TRUE, expenses |-> <<>>]
    /\ dupOut = <<>>
    /\ riOp = "init"
    /\ riData = NoDict
    /\ riPrev = NoRI
    /\ riCur = NoRI
    /\ conv = [u \in Users |-> "END"]
    /\ gconv = [u \in Users |-> "END"]
    /\ user_data = [u \in Users |-> EmptyUserData]
    /\ bot_data = [u \in Users |-> NoToken]
    /\ pending_auth = [u \in Users |-> NoToken]
    /\ svc = [access_token |-> NoToken, current_group_id |-> DefaultGroup,
              users |-> NoGroup]
    /\ files = {}
    /\ nuploads = 0
    /\ ntokens = 0
    /\ last = NoUpdate("init", "none")
    /\ hist = NoHist
    /\ fnOp = "init"
    /\ fnArgs = <<>>
    /\ fnOut = PyNone
    /\ web = NoSessions
    /\ webLast = NoRequest
    /\ poll = PollIdle
    /\ staged = {}
    /\ delivered = [u \in Users |-> <<>>]

\* the group has one more expense when the detector runs
DupQuery ==
    \E e \in HistoryExpenses :
        /\ dupHist.ok
        /\ Len(dupHist.expenses) < MaxHist
        /\ dupHist' = [dupHist EXCEPT !.expenses = Append(@, e)]
        /\ dupOut' = find_potential_duplicates(dupCand, dupHist')
        /\ UNCHANGED dupCand

\* the ledger query raises
DupQueryFails ==
    /\ dupHist.ok
    /\ dupHist' = [dupHist EXCEPT !.ok = FALSE]
    /\ dupOut' = find_potential_duplicates(dupCand, dupHist')
    /\ UNCHANGED dupCand

DupNext ==
    \/ DupQuery /\ UNCHANGED <<riVars, botVars, authVars, histVars, fnVars, webVars>>
    \/ DupQueryFails /\ UNCHANGED <<riVars, botVars, authVars, histVars, fnVars, webVars>>

-----------------------------------------------------------------------------
(* core/splitwise_service.py: the category vocabulary.  A name is the      *)
(* sequence of its characters, so that `in` on str is computed.            *)

\* a in b, for two str
str_in(a, b) ==
    \E i \in 0..(Len(b) - Len(a)) : SubSeq(b, i + 1, i + Len(a)) = a

Fun == <<"F", "u", "n">>
Food == <<"F", "o", "o", "d">>
Home == <<"H", "o", "m", "e">>
Other == <<"O", "t", "h", "e", "r">>

\* f'{category.getName()} / {subcat.getName()}'
sub_label(parent, child) == parent \o <<" ", "/", " ">> \o child

\* what client.getCategories() returns: each category with its id, name and
\* subcategories
ClientCategories ==
    { [id |-> "1", name |-> Fun,
       subs |-> <<[id |-> "11", name |-> Food], [id |-> "12", name |-> Other]>>],
      [id |-> "2", name |-> Food,
       subs |-> <<[id |-> "21", name |-> Home], [id |-> "22", name |-> Other]>>],
      [id |-> "3", name |-> Home, subs |-> <<>>] }

\* the vocabularies of the model: up to MaxCategories categories, in any order
MaxCategories == 2

CategoryLists ==
    UNION { [1..n -> ClientCategories] : n \in 0..MaxCategories }

\* the names looked up
CategoryNames ==
    { Fun, Food, Home, Other, <<"o">>, <<"O">>, <<>>, <<"f", "o", "o", "d">>,
      sub_label(Food, Other), sub_label(Fun, Food), <<"d", " ", "/">>,
      <<"/", " ", "O">> }

\* the subcategories of one category as entries of self.categories
sub_entries(parent, subs) ==
    [i \in 1..Len(subs) |->
        [id |-> subs[i].id, name |-> sub_label(parent, subs[i].name),
         object |-> subs[i].id]]

\* SplitwiseService.init_categories
RECURSIVE init_categories(_)
init_categories(client) ==
    IF client = <<>> THEN <<>>
    ELSE <<[id |-> Head(client).id, name |-> Head(client).name,
            object |-> Head(client).id]>>
         \o sub_entries(Head(client).name, Head(client).subs)
         \o init_categories(Tail(client))

\* SplitwiseService.get_categories: the cached list, loaded when empty
get_categories(categories, client) ==
    IF categories = <<>> THEN init_categories(client) ELSE categories

\* the loop of get_category_by_name over the entries from index i on
RECURSIVE first_containing(_, _, _)
first_containing(categories, category_name, i) ==
    IF i > Len(categories) THEN PyNone
    ELSE IF str_in(category_name, categories[i].name)
    THEN categories[i].object
    ELSE first_containing(categories, category_name, i + 1)

\* a lookup that wants the label to equal the name
get_category_by_name_exact(categories, client, category_name) ==
    LET cats == get_categories(categories, client)
        hits == {i \in 1..Len(cats) : cats[i].name = category_name}
    IN  IF hits = {} THEN PyNone
        ELSE cats[CHOOSE i \in hits : \A j \in hits : i <= j].object

\* SplitwiseService.get_category_by_name
get_category_by_name(categories, client, category_name) ==
    first_containing(get_categories(categories, client), category_name, 1)

\* the harness: a service whose client holds one of the vocabularies
CatInit ==
    /\ fnOp = "init"
    /\ fnArgs \in {[categories |-> <<>>, client |-> cl, category_name |-> <<>>] :
                      cl \in CategoryLists}
    /\ fnOut = PyNone
    /\ riOp = "init"
    /\ riData = NoDict
    /\ riPrev = NoRI
    /\ riCur = NoRI
    /\ dupCand = NoRI
    /\ dupHist = [ok |-> TRUE, expenses |-> <<>>]
    /\ dupOut = <<>>
    /\ conv = [u \in Users |-> "END"]
    /\ gconv = [u \in Users |-> "END"]
    /\ user_data = [u \in Users |-> EmptyUserData]
    /\ bot_data = [u \in Users |-> NoToken]
    /\ pending_auth = [u \in Users |-> NoToken]
    /\ svc = [access_token |-> NoToken, current_group_id |-> DefaultGroup,
              users |-> NoGroup]
    /\ files = {}
    /\ nuploads = 0
    /\ ntokens = 0
    /\ last = NoUpdate("init", "none")
    /\ hist = NoHist
    /\ web = NoSessions
    /\ webLast = NoRequest
    /\ poll = PollIdle
    /\ staged = {}
    /\ delivered = [u \in Users |-> <<>>]

CatLookup ==
    \E category_name \in CategoryNames :
        /\ fnOp' = "get_category_by_name"
        /\ fnArgs' = [fnArgs EXCEPT
                         !.categories = get_categories(@, fnArgs.client),
                         !.category_name = category_name]
        /\ fnOut' = get_category_by_name(fnArgs.categories, fnArgs.client,
                                         category_name)

CatNext == CatLookup /\ UNCHANGED <<riVars, dupVars, botVars, authVars, histVars, webVars>>

-----------------------------------------------------------------------------
(* core/splitwise_service.py: the prior transactions given to the          *)
(* extraction as examples                                                   *)

\* the cap of line 206
MaxExamples == 15

\* the expenses of the short ledgers: two merchants, two categories, both
\* split modes, and a deleted expense of a merchant of its own
ExampleExpenses ==
    { Expense(1, "20.0", mc[1], mc[2], FALSE) @@ [split_option |-> so] :
        mc \in {<<"Jumbo", "Groceries">>, <<"Jumbo", "Fuel">>,
                <<"Shell", "Fuel">>},
        so \in {"equal", "exact"} }
    \cup { Expense(1, "20.0", "Gone", "Groceries", TRUE) @@ [split_option |-> "equal"] }

\* the short ledgers hold up to MaxLedger expenses
MaxLedger == 2

ShortLedgers == UNION { [1..n -> ExampleExpenses] : n \in 0..MaxLedger }

MerchantNo ==
    <<"m1", "m2", "m3", "m4", "m5", "m6", "m7", "m8", "m9", "m10", "m11",
      "m12", "m13", "m14", "m15", "m16", "m17">>

\* a ledger of k expenses of k merchants
Numbered(k) ==
    [i \in 1..k |-> Expense(1, "20.0", MerchantNo[i], "Groceries", FALSE)
                        @@ [split_option |-> "equal"]]

\* the long ledgers: 14 to 17 merchants; 17 with one expense deleted; 17
\* followed by an expense of a known merchant in the other split mode
LongLedgers ==
    { Numbered(k) : k \in 14..17 }
    \cup { [Numbered(17) EXCEPT ![d].deleted = TRUE] : d \in 1..17 }
    \cup { [Numbered(14) EXCEPT ![d].description = "m1"] \o Numbered(3) :
              d \in 2..14 }

ExampleLedgers == ShortLedgers \cup LongLedgers

\* lines 180-187: the expenses that are not deleted, as ReceiptInfo
RECURSIVE raw_data_of(_)
raw_data_of(expenses) ==
    IF expenses = <<>> THEN <<>>
    ELSE (IF Head(expenses).deleted THEN <<>>
          ELSE <<from_expense(Head(expenses))>>)
         \o raw_data_of(Tail(expenses))

\* lines 197-207: the selection loop from raw_data[i] on, with the entries
\* chosen so far and the cap
RECURSIVE select_examples(_, _, _, _)
select_examples(raw_data, i, representative, cap) ==
    IF i > Len(raw_data) THEN representative
    ELSE LET ri == raw_data[i]
             seen(field) == {representative[k][field] :
                                k \in 1..Len(representative)}
             rep1 == IF \/ ri.merchant \notin seen("merchant")
                        \/ ri.category \notin seen("category")
                        \/ ri.split_option \notin seen("split_option")
                     THEN Append(representative, ri)
                     ELSE representative
         IN  IF Len(rep1) >= cap THEN rep1
             ELSE select_examples(raw_data, i + 1, rep1, cap)

\* the selection without the cap
get_representative_examples_uncapped(expenses) ==
    select_examples(raw_data_of(expenses), 1, <<>>, Len(expenses) + 1)

\* SplitwiseService.get_representative_examples
get_representative_examples(expenses) ==
    select_examples(raw_data_of(expenses), 1, <<>>, MaxExamples)

\* the harness: the ledger returns one of the ledgers of the model
ExInit ==
    /\ fnOp = "init"
    /\ fnArgs \in {[expenses |-> l] : l \in ExampleLedgers}
    /\ fnOut = <<>>
    /\ riOp = "init"
    /\ riData = NoDict
    /\ riPrev = NoRI
    /\ riCur = NoRI
    /\ dupCand = NoRI
    /\ dupHist = [ok |-> TRUE, expenses |-> <<>>]
    /\ dupOut = <<>>
    /\ conv = [u \in Users |-> "END"]
    /\ gconv = [u \in Users |-> "END"]
    /\ user_data = [u \in Users |-> EmptyUserData]
    /\ bot_data = [u \in Users |-> NoToken]
    /\ pending_auth = [u \in Users |-> NoToken]
    /\ svc = [access_token |-> NoToken, current_group_id |-> DefaultGroup,
              users |-> NoGroup]
    /\ files = {}
    /\ nuploads = 0
    /\ ntokens = 0
    /\ last = NoUpdate("init", "none")
    /\ hist = NoHist
    /\ web = NoSessions
    /\ webLast = NoRequest
    /\ poll = PollIdle
    /\ staged = {}
    /\ delivered = [u \in Users |-> <<>>]

ExamplesCall ==
    /\ fnOp' = "get_representative_examples"
    /\ fnOut' = get_representative_examples(fnArgs.expenses)
    /\ UNCHANGED fnArgs

ExNext == ExamplesCall /\ UNCHANGED <<riVars, dupVars, botVars, authVars, histVars, webVars>>

-----------------------------------------------------------------------------
(* web/app.py: the OAuth flow of the web app.  Each browser has its Flask   *)
(* session; /authorize stores the state parameter it sent to the provider,  *)
(* /callback takes the code and the state of the redirect, /logout clears   *)
(* the session.                                                             *)

\* the /authorize calls of one browser
MaxAuthorize == 2

\* the k-th state value get_oauth2_authorize_url generates for browser b: a
\* random text of the OAuth client, no base64-encoded JSON
oauth2_state(b, k) == <<"opaque", <<b, k>>>>

\* the state parameters a redirect to /callback can carry: none, any value
\* /authorize can have generated, and the states of the Telegram login links
CallbackStates ==
    {NoState}
    \cup {oauth2_state(b, k) : b \in Browsers, k \in 1..MaxAuthorize}
    \cup {login_state(u) : u \in Users}

\* request.args.get('code')
CallbackCodes == {PyNone, "code"}

\* what get_oauth2_access_token returns for the web app flow and for the
\* login link of user u
WebAppToken == <<0, 1>>
LinkToken(u) == <<u, 1>>

\* authorize, line 41, on the session
authorize(session, state) == [session EXCEPT !.oauth2_state = state]

\* callback, lines 56-71: the user_id of a state that is base64-encoded JSON
state_user_id(state) == json_loads(b64decode(state)).user_id

\* callback, lines 46-112, on the session: [session, status, token], token
\* the one handed to splitwise_service.set_oauth2_token, NoToken when none is
web_callback(session, code, state, exchange_ok) ==
    IF code = PyNone THEN [session |-> session, status |-> 400, token |-> NoToken]
    ELSE IF state_user_id(state) # PyNone
    THEN [session |-> session,
          status |-> IF state_user_id(state) = "" \/ ~exchange_ok
                     THEN 400 ELSE 200,
          token |-> NoToken]
    ELSE IF state # session.oauth2_state
    THEN [session |-> session, status |-> 400, token |-> NoToken]
    ELSE IF ~exchange_ok
    THEN [session |-> session, status |-> 400, token |-> NoToken]
    ELSE [session |-> [session EXCEPT !.oauth2_access_token = WebAppToken],
          status |-> 302, token |-> WebAppToken]

\* logout of the web app, line 189: session.clear()
web_logout(session) == EmptySession

WebInit ==
    /\ web = NoSessions
    /\ webLast = NoRequest
    /\ conv = [u \in Users |-> "END"]
    /\ gconv = [u \in Users |-> "END"]
    /\ user_data = [u \in Users |-> EmptyUserData]
    /\ bot_data = [u \in Users |-> NoToken]
    /\ pending_auth = [u \in Users |-> NoToken]
    /\ svc = [access_token |-> NoToken, current_group_id |-> DefaultGroup,
              users |-> NoGroup]
    /\ files = {}
    /\ nuploads = 0
    /\ ntokens = 0
    /\ last = NoUpdate("init", "none")
    /\ hist = NoHist
    /\ fnOp = "init"
    /\ fnArgs = <<>>
    /\ fnOut = PyNone
    /\ poll = PollIdle
    /\ staged = {}
    /\ delivered = [u \in Users |-> <<>>]
    /\ riOp = "init"
    /\ riData = NoDict
    /\ riPrev = NoRI
    /\ riCur = NoRI
    /\ dupCand = NoRI
    /\ dupHist = [ok |-> TRUE, expenses |-> <<>>]
    /\ dupOut = <<>>

\* GET /authorize from browser b
WebAppAuthorize(b) ==
    /\ web[b].issued < MaxAuthorize
    /\ LET state == oauth2_state(b, web[b].issued + 1)
       IN  /\ web' = [web EXCEPT ![b].session = authorize(@, state),
                                 ![b].issued = @ + 1]
           /\ webLast' = [route |-> "authorize", b |-> b, state |-> state,
                          code |-> PyNone, session |-> web[b].session,
                          status |-> 302]
    /\ UNCHANGED <<botVars, authVars>>

\* GET /callback from browser b with the code and the state of the query
\* string; the Telegram flow stages the token for the user of the link
WebAppCallback(b) ==
    \E code \in CallbackCodes, state \in CallbackStates, exchange_ok \in BOOLEAN :
        LET r == web_callback(web[b].session, code, state, exchange_ok)
        IN  /\ web' = [web EXCEPT ![b].session = r.session]
            /\ webLast' = [route |-> "callback", b |-> b, state |-> state,
                           code |-> code, session |-> web[b].session,
                           status |-> r.status]
            /\ svc' = IF r.token # NoToken
                      THEN [svc EXCEPT !.access_token = r.token]
                      ELSE svc
            /\ pending_auth' =
                  IF code = PyNone THEN pending_auth
                  ELSE callback(pending_auth, state,
                                IF exchange_ok /\ state_user_id(state) \in {"1", "2"}
                                THEN LinkToken(int(state_user_id(state)))
                                ELSE NoToken)
            /\ UNCHANGED <<conv, gconv, user_data, bot_data, files, nuploads,
                           ntokens, last, authVars>>

\* GET /logout from browser b
WebAppLogout(b) ==
    /\ web' = [web EXCEPT ![b].session = web_logout(@)]
    /\ webLast' = [route |-> "logout", b |-> b, state |-> NoState,
                   code |-> PyNone, session |-> web[b].session, status |-> 302]
    /\ UNCHANGED <<botVars, authVars>>

WebNext ==
    \/ \E b \in Browsers : WebAppAuthorize(b) /\ UNCHANGED <<riVars, dupVars, histVars, fnVars>>
    \/ \E b \in Browsers : WebAppCallback(b) /\ UNCHANGED <<riVars, dupVars, histVars, fnVars>>
    \/ \E b \in Browsers : WebAppLogout(b) /\ UNCHANGED <<riVars, dupVars, histVars, fnVars>>

-----------------------------------------------------------------------------
(* Specifications *)

vars == <<riVars, dupVars, botVars, authVars, histVars, fnVars, webVars>>

Spec == BotInit /\ [][BotNext]_vars
SpecRI == RIInit /\ [][RINext]_vars
SpecDup == DupInit /\ [][DupNext]_vars
SpecAuth == AuthInit /\ [][AuthNext]_vars
SpecTwo == TwoInit /\ [][TwoNext]_vars
SpecLate == TwoInit /\ [][LateNext]_vars
SpecCat == CatInit /\ [][CatNext]_vars
SpecEx == ExInit /\ [][ExNext]_vars
SpecWeb == WebInit /\ [][WebNext]_vars

\* the job queue runs check_pending_auth every 10 seconds (line 682) and each
\* session goes on handling updates
SpecAuthFair ==
    /\ AuthInit
    /\ [][AuthNext]_vars
    /\ WF_vars(PollSnapshot \/ PollStore \/ PollDelete)
    /\ \A u \in Users : WF_vars(AuthLogin(u))

-----------------------------------------------------------------------------
(* The exact-split invariant of the data model *)

RECURSIVE SumShares(_, _)
SumShares(users, share) ==
    IF users = <<>> THEN 0
    ELSE float(Head(users)[share]).v + SumShares(Tail(users), share)

\* sum(users[].owed_share) and sum(users[].paid_share) equal total within 0.01
SharesBalanced(r) ==
    /\ float(r.total).ok
    /\ Abs(SumShares(r.users, "owed_share") - float(r.total).v) <= 1
    /\ Abs(SumShares(r.users, "paid_share") - float(r.total).v) <= 1

\* a ReceiptInfo that satisfies the rules of the data model
ValidReceipt(r) ==
    /\ float(r.total).ok /\ float(r.total).v >= 0
    /\ r.merchant \notin {"", PyNone}
    /\ r.currency_code \in {"EUR", "USD"}
    /\ r.split_option \in {"equal", "exact"}
    /\ r.split_option = "exact" => r.users # <<>> /\ SharesBalanced(r)

-----------------------------------------------------------------------------
(* Claims about the receipt conversation (Spec).  They read the record of   *)
(* the update handled last: last.state and last.receipt are the session's   *)
(* state and working ReceiptInfo when the update arrived, last.calls the    *)
(* external calls its handler made, conv and user_data what it left.        *)

\* the calls of one kind among the calls of the last run
CallsOf(op) == SelectSeq(last.calls, LAMBDA call : call.op = op)

\* the document the user's latest upload stored
SessionDocument(u) == <<u, nuploads>>

\* the session holds nothing of a receipt any more
CleanedUp(u) ==
    /\ user_data[u].receipt_file_path = NoFile
    /\ user_data[u].receipt_info = NoRI
    /\ SessionDocument(u) \notin files

\* C1: when "yes" arrives in CONFIRM and the duplicate detector, run on the
\* working ReceiptInfo, returns no duplicates, the handler makes exactly one
\* createExpense call, for that ReceiptInfo, and the session ends (END).
C1_YesWithoutDuplicatesCommitsOnce ==
    ( /\ last.h = "confirm_receipt"
      /\ last.state = "CONFIRM"
      /\ CallsOf("find_potential_duplicates") # <<>>
      /\ CallsOf("find_potential_duplicates")[1].found = 0 )
    => /\ CallsOf("find_potential_duplicates")[1].ri = last.receipt
       /\ Len(CallsOf("createExpense")) = 1
       /\ CallsOf("createExpense")[1].ri = last.receipt
       /\ conv[last.u] = "END"

\* C1, its case: a "yes" in CONFIRM, the detector queried the ledger and
\* found nothing, createExpense went through
C1_Witness ==
    /\ last.h = "confirm_receipt"
    /\ last.state = "CONFIRM"
    /\ CallsOf("find_potential_duplicates") # <<>>
    /\ CallsOf("find_potential_duplicates")[1].ok
    /\ CallsOf("find_potential_duplicates")[1].found = 0
    /\ CallsOf("createExpense") # <<>>
    /\ CallsOf("createExpense")[1].ok

\* C2: a cancel received in DUPLICATE_CHECK (the button duplicate_cancel or
\* the command /cancel) makes no createExpense call and ends the session.
C2_CancelAtDuplicateCheck ==
    ( /\ last.state = "DUPLICATE_CHECK"
      /\ \/ last.h = "handle_duplicate_callback" /\ last.ev = "duplicate_cancel"
         \/ last.ev = "cmd_cancel" )
    => /\ CallsOf("createExpense") = <<>>
       /\ conv[last.u] = "END"

\* C2, its case: the duplicate alert was shown for a receipt and the user
\* pressed its Cancel button
C2_Witness ==
    /\ last.state = "DUPLICATE_CHECK"
    /\ last.h = "handle_duplicate_callback"
    /\ last.ev = "duplicate_cancel"
    /\ last.receipt # NoRI
    /\ conv[last.u] = "END"

\* C3: a cancel of the user (/cancel in any non-terminal state, the word
\* "cancel" in CONFIRM) leaves the session without its temporary document,
\* without a working ReceiptInfo and without a stored file path.
C3_CancelAlwaysCleansUp ==
    ( /\ \/ last.ev = "cmd_cancel"
         \/ last.ev = "cancel_text" /\ last.state = "CONFIRM"
      /\ \/ last.state \in {"PENDING_DOWNLOAD", "PENDING_REPLY", "CONFIRM",
                            "DUPLICATE_CHECK"}
         \/ last.gstate = "SELECT_GROUP" )
    => CleanedUp(last.u)

\* C4: whenever a handler ends a session that had stored a document (the
\* conversation goes to END), the document is gone and the working
\* ReceiptInfo and the file path are cleared.
C4_TerminalIsCleanedUp ==
    ( /\ last.h # "none"
      /\ \/ last.state \in {"PENDING_REPLY", "CONFIRM", "DUPLICATE_CHECK"}
         \/ /\ last.state = "PENDING_DOWNLOAD"
            /\ CallsOf("extract_receipt_info") # <<>>
      /\ conv[last.u] = "END" )
    => CleanedUp(last.u)

\* C5: an update that arrives while the session is in DUPLICATE_CHECK leads
\* to a createExpense call only if it is the button "proceed".
C5_CommitOnlyOnProceed ==
    (last.state = "DUPLICATE_CHECK" /\ CallsOf("createExpense") # <<>>)
    => last.ev = "duplicate_proceed"

\* a correction payload arrived in CONFIRM
CorrectionInConfirm ==
    /\ last.h = "handle_web_app_data"
    /\ last.state = "CONFIRM"
    /\ last.arg \in CorrectionDicts
    /\ last.receipt # NoRI

\* the working ReceiptInfo with the correction merged over it
Merged == CHOOSE r \in {update_from_dict(last.receipt, last.arg, now) :
                            now \in NowValues} : TRUE

\* C6 as stated: a correction received in CONFIRM replaces the working
\* ReceiptInfo by the merged value and leaves the session in CONFIRM, with no
\* duplicate check and no createExpense call.
C6_CorrectionStaysInConfirm ==
    CorrectionInConfirm
    => /\ conv[last.u] = "CONFIRM"
       /\ user_data[last.u].receipt_info = Merged
       /\ CallsOf("find_potential_duplicates") = <<>>
       /\ CallsOf("createExpense") = <<>>

\* C6 amended: a correction received in CONFIRM by an authenticated session
\* is merged over the working ReceiptInfo and committed at once: the duplicate
\* detector runs on the merged value; when it returns nothing, createExpense
\* is called once with the merged value and the session ends; when it returns
\* duplicates, the session goes to DUPLICATE_CHECK holding the merged value.
\* The session never stays in CONFIRM.
C6_CorrectionCommitsAtOnce ==
    (CorrectionInConfirm /\ last.auth)
    => /\ Len(CallsOf("find_potential_duplicates")) = 1
       /\ CallsOf("find_potential_duplicates")[1].ri = Merged
       /\ IF CallsOf("find_potential_duplicates")[1].found = 0
          THEN /\ Len(CallsOf("createExpense")) = 1
               /\ CallsOf("createExpense")[1].ri = Merged
               /\ conv[last.u] = "END"
          ELSE /\ CallsOf("createExpense") = <<>>
               /\ conv[last.u] = "DUPLICATE_CHECK"
               /\ user_data[last.u].receipt_info = Merged

\* C6, its case: a correction that changes the receipt arrived in CONFIRM and
\* was committed in the same run
C6_Witness ==
    /\ CorrectionInConfirm
    /\ last.auth
    /\ Merged # last.receipt
    /\ CallsOf("createExpense") # <<>>
    /\ CallsOf("createExpense")[1].ri = Merged

\* C7: createExpense is never called with an exact split whose paid or owed
\* shares do not sum to the total within 0.01.
C7_CommitOnlyBalancedShares ==
    \A i \in 1..Len(CallsOf("createExpense")) :
        CallsOf("createExpense")[i].ri.split_option = "exact"
        => SharesBalanced(CallsOf("createExpense")[i].ri)

\* C13: when the ledger query of the duplicate detector fails, the detector
\* returns no duplicates and a session that answered "yes" in CONFIRM goes on
\* as if none had been found: one createExpense call for the working
\* ReceiptInfo, and the session ends.
C13_DuplicateCheckFailsOpen ==
    ( /\ last.h = "confirm_receipt"
      /\ last.state = "CONFIRM"
      /\ CallsOf("find_potential_duplicates") # <<>>
      /\ ~CallsOf("find_potential_duplicates")[1].ok )
    => /\ CallsOf("find_potential_duplicates")[1].found = 0
       /\ Len(CallsOf("createExpense")) = 1
       /\ CallsOf("createExpense")[1].ri = last.receipt
       /\ conv[last.u] = "END"

\* C13, its case: "yes" in CONFIRM, the ledger query failed and the expense
\* was created
C13_Witness ==
    /\ last.h = "confirm_receipt"
    /\ last.state = "CONFIRM"
    /\ CallsOf("find_potential_duplicates") # <<>>
    /\ ~CallsOf("find_potential_duplicates")[1].ok
    /\ CallsOf("createExpense") # <<>>
    /\ CallsOf("createExpense")[1].ok
    /\ conv[last.u] = "END"

\* C14: a session whose handler invoked createExpense ends (END), whether the
\* call succeeded or failed; when it succeeded and the attachment failed, the
\* run makes no further ledger call that would undo the expense.
C14_CommitAlwaysEnds ==
    CallsOf("createExpense") # <<>>
    => /\ conv[last.u] = "END"
       /\ \A i \in 1..Len(last.calls) :
             last.calls[i].op \in {"find_potential_duplicates", "createExpense",
                                   "attachDocument", "unlink"}

\* C15: extraction is invoked once for an uploaded document, by the run that
\* downloaded it, and never again; when it fails the session ends (END)
\* with the error text as reply, the run stores no ReceiptInfo, and the
\* session takes the next document as a new attempt.
C15_ExtractionFailureEnds ==
    /\ CallsOf("extract_receipt_info") # <<>>
       => /\ last.state = "PENDING_DOWNLOAD"
          /\ Len(CallsOf("extract_receipt_info")) = 1
          /\ CallsOf("extract_receipt_info")[1].file = SessionDocument(last.u)
          /\ conv[last.u] \in {"END", "PENDING_REPLY"}
    /\ ( /\ CallsOf("extract_receipt_info") # <<>>
         /\ ~CallsOf("extract_receipt_info")[1].ok )
       => /\ conv[last.u] = "END"
          /\ CallsOf("reply_text") = <<[op |-> "reply_text", text |-> "str(e)"]>>
          /\ user_data[last.u].receipt_info = last.receipt
          /\ ConvAccepts(last.u, "document")

\* C15, its case: the extraction of an uploaded document failed in a session
\* that held no ReceiptInfo
C15_Witness ==
    /\ last.state = "PENDING_DOWNLOAD"
    /\ CallsOf("extract_receipt_info") # <<>>
    /\ ~CallsOf("extract_receipt_info")[1].ok
    /\ user_data[last.u].receipt_info = NoRI
    /\ conv[last.u] = "END"

\* a run of process_receipt on a message that is no image and no PDF: the
\* run that takes the message up to the await of line 308, or the run of the
\* task that rejects it (lines 246-249 and 314-317)
RejectionRun ==
    /\ last.h = "process_receipt"
    /\ \/ last.ev = "document_other"
       \/ last.ev = "task" /\ last.state = "PENDING_UNSUPPORTED"

\* what a rejection leaves alone apart from the credential: no extraction
\* call, the uploads directory, the stored path, the working receipt and the
\* selected group
RejectionFrame ==
    /\ CallsOf("extract_receipt_info") = <<>>
    /\ files = last.pre.files
    /\ user_data[last.u].receipt_file_path = last.pre.path
    /\ user_data[last.u].receipt_info = last.receipt
    /\ user_data[last.u].group_id = last.pre.group

\* C16 as stated: a document that is neither an image nor a PDF is rejected
\* without state change: extraction is not invoked, no temporary file or
\* path is stored, no working receipt is set, and the credential and the
\* selected group of the session are unchanged
C16_RejectionChangesNothing ==
    RejectionRun
    => /\ RejectionFrame
       /\ user_data[last.u].access_token = last.pre.token

\* C16 amended: a document that is neither an image nor a PDF is rejected
\* without extraction, stored file, stored path or working receipt, and with
\* the selected group unchanged; the credential of the session is unchanged
\* unless the session held none and one was waiting in bot_data, which the
\* authentication check of the handler then delivers
C16_RejectionOnlyDeliversCredential ==
    RejectionRun
    => /\ RejectionFrame
       /\ \/ user_data[last.u].access_token = last.pre.token
          \/ /\ last.pre.token = NoToken
             /\ last.pre.waiting # NoToken
             /\ user_data[last.u].access_token = last.pre.waiting

\* the task has rejected a document of an unsupported type
C16_Witness ==
    /\ last.h = "process_receipt"
    /\ last.ev = "task"
    /\ last.state = "PENDING_UNSUPPORTED"
    /\ conv[last.u] = "END"
    /\ CallsOf("reply_text") # <<>>

\* C17: createExpense, the extraction and the selection of a group are
\* performed only for a session whose private store holds an access
\* credential at that moment, in every state of the conversation
C17_NothingWithoutCredential ==
    ( \/ CallsOf("createExpense") # <<>>
      \/ CallsOf("extract_receipt_info") # <<>>
      \/ /\ last.h = "handle_group_selection"
         /\ gconv[last.u] = "END"
         /\ user_data[last.u].group_id # NoGroup )
    => user_data[last.u].access_token # NoToken

-----------------------------------------------------------------------------
(* Claims about the ReceiptInfo model (SpecRI) *)

\* C8: every ReceiptInfo that from_dict or update_from_dict produced with
\* split_option = exact has owed shares and paid shares that sum to the total
\* within 0.01: construction rejects every other set of shares.
C8_ExactSharesBalanced ==
    (riOp \in {"from_dict", "update_from_dict"} /\ riCur.split_option = "exact")
        => SharesBalanced(riCur)

\* C9 as claimed: from_dict(to_dict(r)) = r, field for field, for every valid
\* r, also when notes or category is None and when the total is written
\* without a fractional part.
C9_RoundTripIdentity ==
    (riOp = "round_trip" /\ ValidReceipt(riPrev)) => riCur = riPrev

\* what the round trip does to a valid r: None notes and category come back
\* as "", the total comes back as str(float(total)), nothing else changes
RoundTripOf(r) ==
    [r EXCEPT !.notes = Or(@, ""), !.category = Or(@, ""),
              !.total = float_str(float(@).v)]

\* C9 as amended: from_dict(to_dict(r)) equals r in date, merchant,
\* currency_code, split_option and users for every valid r; notes and category
\* come back unchanged unless they were None, which comes back as ""; the total
\* comes back as str(float(total)). So the round trip is the identity exactly
\* on the valid r whose notes and category are texts and whose total is
\* already written as str(float()) writes it.
C9_RoundTripNormalised ==
    (riOp = "round_trip" /\ ValidReceipt(riPrev))
        => /\ riCur = RoundTripOf(riPrev)
           /\ (riCur = riPrev) <=>
                  /\ riPrev.notes # PyNone
                  /\ riPrev.category # PyNone
                  /\ riPrev.total = float_str(float(riPrev.total).v)

\* C9 witness: a valid r with notes None and total "45" went round
C9_Witness ==
    /\ riOp = "round_trip"
    /\ ValidReceipt(riPrev)
    /\ riPrev.notes = PyNone
    /\ riPrev.total = "45"
    /\ riPrev.date.hour = 23
    /\ riPrev.split_option = "exact"

-----------------------------------------------------------------------------
(* Claims about the duplicate detector (SpecDup) *)

Returned(e) == \E j \in 1..Len(dupOut) : dupOut[j] = from_expense(e)

\* C10: every non-deleted expense the query returned whose calendar date is
\* the candidate's and whose amount differs from the candidate total by at
\* most 15% of that total, the boundary included, is returned as a duplicate,
\* whatever its merchant and category (stated for a candidate total > 0).
C10_SameDayTier ==
    \A i \in 1..Len(dupHist.expenses) :
        LET e == dupHist.expenses[i]
            t == float(dupCand.total)
            a == float(e.cost)
        IN  (/\ dupHist.ok
             /\ ~e.deleted
             /\ e.date.day = dupCand.date.day
             /\ t.ok /\ a.ok /\ t.v > 0
             /\ 100 * Abs(t.v - a.v) <= 15 * t.v)
                => Returned(e)

\* C11: every non-deleted expense of the group dated at most 2 calendar days
\* from the candidate whose amount differs from the candidate total by at most
\* 5% of that total, the boundary included, and whose merchant contains or is
\* contained in the candidate's, or whose category equals the candidate's
\* (both case-insensitive), is returned as a duplicate.
C11_NearTier ==
    \A i \in 1..Len(dupHist.expenses) :
        LET e == dupHist.expenses[i]
            t == float(dupCand.total)
            a == float(e.cost)
        IN  (/\ dupHist.ok
             /\ ~e.deleted
             /\ Abs(e.date.day - dupCand.date.day) <= 2
             /\ t.ok /\ a.ok /\ t.v > 0
             /\ 100 * Abs(t.v - a.v) <= 5 * t.v
             /\ \/ same_merchant(dupCand, from_expense(e))
                \/ same_category(dupCand, from_expense(e)))
                => Returned(e)

\* one text contains the other, letter case ignored
MerchantOverlap(a, b) ==
    \/ Contains(lower(Or(a, "")), lower(Or(b, "")))
    \/ Contains(lower(Or(b, "")), lower(Or(a, "")))

\* the two tiers as the matching rule states them, for candidate total t and
\* expense amount a in cents
TierHolds(e) ==
    LET t == float(dupCand.total)
        a == float(e.cost)
    IN  /\ t.ok /\ a.ok /\ t.v > 0
        /\ \/ /\ e.date.day = dupCand.date.day
              /\ 100 * Abs(t.v - a.v) <= 15 * t.v
           \/ /\ Abs(e.date.day - dupCand.date.day) <= 2
              /\ 100 * Abs(t.v - a.v) <= 5 * t.v
              /\ \/ MerchantOverlap(dupCand.merchant, e.description)
                 \/ lower(Or(dupCand.category, "")) = lower(Or(e.category, ""))

\* C12: every duplicate the detector returns is a non-deleted expense of the
\* group for which the same-day tier or the near tier holds; an expense on
\* another day than the candidate whose merchant neither contains nor is
\* contained in the candidate's and whose category differs is not returned,
\* whatever its amount.
C12_OnlyTheTwoTiers ==
    /\ \A j \in 1..Len(dupOut) :
          \E i \in 1..Len(dupHist.expenses) :
              /\ dupOut[j] = from_expense(dupHist.expenses[i])
              /\ ~dupHist.expenses[i].deleted
              /\ TierHolds(dupHist.expenses[i])
    /\ \A i \in 1..Len(dupHist.expenses) :
          LET e == dupHist.expenses[i]
          IN  (/\ e.date.day # dupCand.date.day
               /\ ~MerchantOverlap(dupCand.merchant, e.description)
               /\ lower(Or(dupCand.category, "")) # lower(Or(e.category, "")))
                  => ~Returned(e)

\* C12, its case: the detector returned a duplicate and left out an expense
\* of the next day with the candidate's exact amount, another merchant and
\* another category
C12_Witness ==
    /\ dupOut # <<>>
    /\ \E i \in 1..Len(dupHist.expenses) :
          LET e == dupHist.expenses[i]
          IN  /\ e.date.day = dupCand.date.day + 1
              /\ ~e.deleted
              /\ e.cost = dupCand.total
              /\ float(e.cost).ok /\ float(e.cost).v > 0
              /\ e.description = "Shell" /\ dupCand.merchant = "Jumbo"
              /\ e.category = "Fuel" /\ dupCand.category = "Groceries"
              /\ ~Returned(e)

-----------------------------------------------------------------------------
(* Claims about the credential hand-off (SpecAuth, SpecAuthFair) *)

\* where a token waits between the callback and the private store
InHandOff(t) ==
    \E u \in Users :
        \/ pending_auth[u] = t
        \/ bot_data[u] = t
        \/ \E i \in 1..Len(poll.items) : poll.items[i].token = t

\* the token is in the sequence
Holds(seq, t) == \E i \in 1..Len(seq) : seq[i] = t

\* C18: every token notify_user_authenticated stored is either still on its
\* way or has been moved into the private store of a session, no token is
\* moved into a private store twice, and a token that is in the private
\* store is no longer in the staging entry of bot_data
C18_HandOffExactlyOnce ==
    /\ \A t \in staged :
          InHandOff(t) \/ \E u \in Users : Holds(delivered[u], t)
    /\ \A u \in Users : \A i, j \in 1..Len(delivered[u]) :
          i # j => delivered[u][i] # delivered[u][j]
    /\ \A u \in Users :
          user_data[u].access_token # NoToken
          => bot_data[u] # user_data[u].access_token

\* C19: every token a successful callback stored for user u eventually is
\* the access token in user_data of u, under the fairness of SpecAuthFair
C19_EveryCredentialArrives ==
    \A u \in Users : \A n \in 1..MaxCallbacks :
        (<<u, n>> \in staged) ~> (user_data[u].access_token = <<u, n>>)

\* C20: a token exchanged for a callback whose state parameter came from
\* the login of user u is found only in the _pending_auth entry, the
\* bot_data entry, the job's copy and the user_data of u
C20_RoutedToOriginOnly ==
    /\ \A v \in Users :
          \A t \in {pending_auth[v], bot_data[v], user_data[v].access_token}
                   \ {NoToken} : t[1] = v
    /\ \A i \in 1..Len(poll.items) : poll.items[i].token[1] = poll.items[i].u

\* both users have logged in and each holds the token of its own callback
C20_Witness ==
    /\ user_data[1].access_token # NoToken
    /\ user_data[2].access_token # NoToken
    /\ Holds(delivered[1], user_data[1].access_token)
    /\ Holds(delivered[2], user_data[2].access_token)

-----------------------------------------------------------------------------
(* Claims about two sessions (SpecTwo) *)

\* the calls of the last run that went to the ledger
LedgerCalls ==
    SelectSeq(last.calls,
              LAMBDA call : call.op \in {"find_potential_duplicates",
                                         "createExpense", "attachDocument"})

\* C21: every createExpense call made for a session uses the group id this
\* session selected, whatever the other session has selected in between
C21_ExpenseInOwnGroup ==
    \A i \in 1..Len(CallsOf("createExpense")) :
        CallsOf("createExpense")[i].group_id = user_data[last.u].group_id

\* C22: every ledger call made for a session (duplicate query,
\* createExpense, attachDocument) carries the access token of this session
C22_LedgerCallsWithOwnCredential ==
    \A i \in 1..Len(LedgerCalls) :
        LedgerCalls[i].token = user_data[last.u].access_token

\* C23: the cached member list of the service is empty or was loaded for
\* the group id that is active now
C23_MembersOfActiveGroup ==
    svc.users \in {NoGroup, svc.current_group_id}

\* a group was selected while the members of another group were cached, and
\* the cache is empty after the selection
C23_Witness ==
    /\ last.h = "handle_group_selection"
    /\ last.pre.members # NoGroup
    /\ last.pre.members # svc.current_group_id
    /\ user_data[last.u].group_id = svc.current_group_id
    /\ svc.users = NoGroup

-----------------------------------------------------------------------------
(* Claims about late results and committed receipts (SpecLate) *)

\* a result that arrives for a cancelled receipt conversation: a correction
\* payload, or a step of the process_receipt task that was under way
LateResult ==
    /\ last.u \in Users
    /\ hist[last.u].cancelled
    /\ \/ last.h = "handle_web_app_data"
       \/ last.h = "process_receipt" /\ last.ev = "task"

\* C24: a result that arrives after the receipt conversation was cancelled is
\* discarded: the late correction payload or extraction result leaves no
\* working ReceiptInfo in the session and makes no createExpense call
C24_LateResultIsDiscarded ==
    LateResult => /\ user_data[last.u].receipt_info = NoRI
                  /\ CallsOf("createExpense") = <<>>

\* C25: a ReceiptInfo is committed once: for each uploaded document at most
\* one createExpense call succeeds, whatever arrives after the commit (a
\* repeated "yes", a repeated "proceed", a late correction payload)
C25_OneCommitPerDocument ==
    \A u \in Users : hist[u].commits <= 1

-----------------------------------------------------------------------------
(* Further claims about the ReceiptInfo model (SpecRI) *)

\* the fields of a ReceiptInfo, each under the key to_dict writes it to
Fields ==
    {"date", "total", "merchant", "currency_code", "notes", "category",
     "split_option", "users"}

\* the value from_dict makes of what data supplies for field f
Supplied(data, f) == CHOOSE v \in {from_dict(data, now)[f] : now \in NowValues} : TRUE

\* C26: after update_from_dict(data) on r every field whose key is absent
\* from data has exactly the value it had in r, and every field whose key is
\* present has the normalized value supplied in data
C26_ReplaceByFieldMerge ==
    (riOp = "update_from_dict" /\ ValidReceipt(riPrev))
        => \A f \in Fields :
              riCur[f] = IF f \in DOMAIN riData THEN Supplied(riData, f)
                         ELSE riPrev[f]

\* C26 as amended: every field whose key is present in data has the
\* normalized value supplied in data; every field whose key is absent has the
\* value the round trip through to_dict and from_dict gives it: the value it
\* had in r, except that None notes and category become "" and the total
\* becomes str(float(total))
C26_MergeNormalisesTheRest ==
    (riOp = "update_from_dict" /\ ValidReceipt(riPrev))
        => \A f \in Fields :
              riCur[f] = IF f \in DOMAIN riData THEN Supplied(riData, f)
                         ELSE RoundTripOf(riPrev)[f]

\* C26 witness: a correction of the total only was applied to a valid r with
\* notes None and an "exact" split: the total is the supplied one, the notes
\* are "", the split is kept
C26_Witness ==
    /\ riOp = "update_from_dict"
    /\ ValidReceipt(riPrev)
    /\ riData = [total |-> "44"]
    /\ riPrev.notes = PyNone
    /\ riPrev.split_option = "exact"
    /\ riCur.total = "44.0"
    /\ riCur.notes = ""
    /\ riCur.users = riPrev.users

-----------------------------------------------------------------------------
(* Further claims about the receipt conversation (Spec) *)

\* an invalid correction payload arrived in CONFIRM for an authenticated
\* session that holds a working ReceiptInfo: text that is no JSON, JSON that
\* is no object, or an object that makes the receipt invalid
InvalidCorrectionInConfirm ==
    /\ last.h = "handle_web_app_data"
    /\ last.state = "CONFIRM"
    /\ last.auth
    /\ last.receipt # NoRI
    /\ \/ last.arg \in {NotJson, JsonList}
       \/ /\ last.arg \in CorrectionDicts
          /\ \A now \in NowValues :
                ~ValidReceipt(update_from_dict(last.receipt, last.arg, now))

\* C27: an invalid correction payload in CONFIRM is turned into a re-prompt:
\* the session stays in CONFIRM, the working ReceiptInfo is the one it was,
\* the stored document is not removed and nothing is committed
C27_InvalidCorrectionReprompts ==
    InvalidCorrectionInConfirm
        => /\ conv[last.u] = "CONFIRM"
           /\ user_data[last.u].receipt_info = last.receipt
           /\ CallsOf("unlink") = <<>>
           /\ CallsOf("createExpense") = <<>>

\* the run recorded in last read or wrote the working ReceiptInfo or the
\* stored path of its session: cancel (through _cleanup_receipt_data),
\* confirm_receipt and handle_web_app_data once authenticated (the latter
\* once the payload has parsed), handle_duplicate_callback
TouchesReceiptData ==
    \/ last.h \in {"cancel", "handle_duplicate_callback"}
    \/ last.h = "confirm_receipt" /\ last.auth
    \/ last.h = "handle_web_app_data" /\ last.auth /\ last.arg # NotJson

\* C28: the steps of one session do not run concurrently: while the
\* session's process_receipt is under way no other handler of the session
\* reads or writes the working ReceiptInfo or the stored path
C28_NothingBesideProcessReceipt ==
    ( /\ last.u \in Users
      /\ last.state \in {"PENDING_DOWNLOAD", "PENDING_UNSUPPORTED",
                         "PENDING_REPLY"}
      /\ last.h # "process_receipt" )
        => /\ ~TouchesReceiptData
           /\ user_data[last.u].receipt_info = last.receipt
           /\ CallsOf("unlink") = <<>>

-----------------------------------------------------------------------------
(* Further claims about the duplicate detector (SpecDup) *)

\* C29: when the candidate's total is 0, or is no number, the detector
\* returns the empty list whatever the ledger holds, an expense of amount 0
\* on the candidate's day included
C29_ZeroTotalHasNoDuplicates ==
    (dupCand # NoRI /\ (~float(dupCand.total).ok \/ float(dupCand.total).v = 0))
        => dupOut = <<>>

\* C29 witness: the detector ran for a candidate of total 0 (or no number)
\* on a ledger that holds an undeleted expense of amount 0 on the same day
C29_Witness ==
    /\ dupCand # NoRI
    /\ dupCand.total \in {"0.0", "abc"}
    /\ dupHist.ok
    /\ \E i \in 1..Len(dupHist.expenses) :
          /\ ~dupHist.expenses[i].deleted
          /\ from_expense(dupHist.expenses[i]).total = "0.0"
          /\ date_diff_of(dupCand, from_expense(dupHist.expenses[i])) = 0
          /\ \E j \in 1..Len(get_expenses(dupHist.expenses,
                                            since_of(dupCand),
                                            until_of(dupCand))) :
                get_expenses(dupHist.expenses, since_of(dupCand),
                             until_of(dupCand))[j] = dupHist.expenses[i]
    /\ dupOut = <<>>

-----------------------------------------------------------------------------
(* A further claim about the ReceiptInfo model (SpecRI) *)

\* the texts of the model that are three upper-case letters
ThreeUpperCaseLetters == {"EUR", "USD"}

\* C30: the currency_code of every ReceiptInfo that from_dict or
\* update_from_dict produces is three upper-case letters, whatever the input
\* gave as currency_code (lower case, another length, nothing)
C30_CurrencyCodeThreeUpperCase ==
    riOp \in {"from_dict", "update_from_dict"}
        => riCur.currency_code \in ThreeUpperCaseLetters

\* C31: the total of every ReceiptInfo that from_dict or update_from_dict
\* produces parses to a number that is not negative
C31_TotalNonNegative ==
    riOp \in {"from_dict", "update_from_dict"}
        => float(riCur.total).ok /\ float(riCur.total).v >= 0

-----------------------------------------------------------------------------
(* Claims about the category vocabulary (SpecCat) *)

\* the vocabulary in its order: each category followed by its subcategories
\* under their full labels
Vocabulary == init_categories(fnArgs.client)

\* the places of the vocabulary whose label contains the name looked up
Containing == {i \in 1..Len(Vocabulary) :
                  str_in(fnArgs.category_name, Vocabulary[i].name)}

\* C32: get_category_by_name(name) returns the first entry, in the order of
\* the vocabulary, whose full label contains name, and nothing when no label
\* contains it
C32_FirstContainingLabel ==
    fnOp = "get_category_by_name"
        => IF Containing = {} THEN fnOut = PyNone
           ELSE \E i \in Containing :
                   /\ \A j \in Containing : i <= j
                   /\ fnOut = Vocabulary[i].object

\* C32 witness: a name that two labels contain but none equals was looked up
\* and the first of them, a subcategory under its full label, was returned;
\* the parent of that name comes later
C32_Witness ==
    /\ fnOp = "get_category_by_name"
    /\ fnArgs.category_name = Food
    /\ Len(fnArgs.client) = 2
    /\ fnArgs.client[1].name = Fun
    /\ fnArgs.client[2].name = Food
    /\ fnOut = "11"

-----------------------------------------------------------------------------
(* Further claims about the receipt conversation (Spec), continued *)

\* a document arrived for a session that is not authenticated or has no
\* selected group
DocumentForUnreadySession ==
    /\ last.h = "process_receipt"
    /\ last.ev \in Documents
    /\ ~last.auth \/ last.pre.group = NoGroup

\* process_receipt ended at once: nothing stored, nothing extracted
EndedWithoutExtraction ==
    /\ conv[last.u] = "END"
    /\ files = last.pre.files
    /\ user_data[last.u].receipt_file_path = last.pre.path
    /\ user_data[last.u].receipt_info = last.receipt
    /\ CallsOf("extract_receipt_info") = <<>>

\* C33: the extraction is started only for a session that is authenticated
\* and has selected a group; for a session that lacks either, process_receipt
\* ends without a stored file, a ReceiptInfo or an extraction call
C33_ExtractionOnlyForReadySession ==
    /\ CallsOf("extract_receipt_info") # <<>>
          => /\ user_data[last.u].access_token # NoToken
             /\ user_data[last.u].group_id # NoGroup
    /\ DocumentForUnreadySession => EndedWithoutExtraction

-----------------------------------------------------------------------------
(* Claims about the example transactions (SpecEx) *)

\* a is b with some entries left out
RECURSIVE IsSubsequence(_, _)
IsSubsequence(a, b) ==
    IF a = <<>> THEN TRUE
    ELSE IF b = <<>> THEN FALSE
    ELSE IF Head(a) = Head(b) THEN IsSubsequence(Tail(a), Tail(b))
    ELSE IsSubsequence(a, Tail(b))

\* the expenses of the ledger that are not deleted, in its order, converted
LiveTransactions ==
    LET live == SelectSeq(fnArgs.expenses, LAMBDA e : ~e.deleted)
    IN  [i \in 1..Len(live) |-> from_expense(live[i])]

\* entry k of the result has a merchant, a category or a split mode that no
\* earlier entry of the result has
AddsVariety(k) ==
    \/ \A j \in 1..(k - 1) : fnOut[j].merchant # fnOut[k].merchant
    \/ \A j \in 1..(k - 1) : fnOut[j].category # fnOut[k].category
    \/ \A j \in 1..(k - 1) : fnOut[j].split_option # fnOut[k].split_option

\* C34: get_representative_examples returns at most 15 prior transactions,
\* in the order of the ledger and none of them deleted, and each has a
\* merchant, a category or a split mode that no earlier returned one has
C34_RepresentativeExamples ==
    fnOp = "get_representative_examples"
        => /\ Len(fnOut) <= 15
           /\ IsSubsequence(fnOut, LiveTransactions)
           /\ \A k \in 1..Len(fnOut) : AddsVariety(k)

\* C34 witness: the ledger held 17 expenses, one of them deleted and every
\* other one of a merchant of its own, and 15 were returned
C34_Witness ==
    /\ fnOp = "get_representative_examples"
    /\ Len(fnArgs.expenses) = 17
    /\ \E d \in 1..10 : fnArgs.expenses[d].deleted
    /\ Len(LiveTransactions) = 16
    /\ Len(fnOut) = 15

\* a message arrived in SELECT_GROUP
AnswerInSelectGroup ==
    /\ last.h = "handle_group_selection"
    /\ last.gstate = "SELECT_GROUP"

\* the message names one of the listed groups: its first token is an integer
\* n with 1 <= n <= number of listed groups
NamesListedGroup ==
    selection_of(last.arg.text) \in 1..Len(user_data[last.u].groups)

\* the run set the session's group to the group named and ended the selection
SelectedAndEnded ==
    /\ user_data[last.u].group_id =
          user_data[last.u].groups[selection_of(last.arg.text)]
    /\ gconv[last.u] = "END"

\* the run left the session's group and the service's active group alone
GroupsUnchanged ==
    /\ user_data[last.u].group_id = last.pre.group
    /\ svc.current_group_id = last.pre.active

\* C35: in SELECT_GROUP a message whose first token is an integer n with
\* 1 <= n <= number of listed groups sets the session's group to the n-th
\* listed group and ends the selection; any other message leaves the
\* session's group and the service's active group unchanged and keeps the
\* session in SELECT_GROUP
C35_SelectionByNumber ==
    AnswerInSelectGroup
        => IF NamesListedGroup THEN SelectedAndEnded
           ELSE GroupsUnchanged /\ gconv[last.u] = "SELECT_GROUP"

\* C35 as amended: the above for a session that is authenticated when the
\* message arrives; for a session that is not (it logged out after
\* /change_group), every message ends the selection and leaves the session's
\* group and the service's active group unchanged
C35_SelectionByNumberWhenAuthenticated ==
    AnswerInSelectGroup
        => IF ~last.auth THEN GroupsUnchanged /\ gconv[last.u] = "END"
           ELSE IF NamesListedGroup THEN SelectedAndEnded
           ELSE GroupsUnchanged /\ gconv[last.u] = "SELECT_GROUP"

\* C35 witness: an authenticated session that had selected the first group
\* answered with a number beyond the list and stays in SELECT_GROUP with
\* that group
C35_Witness ==
    /\ AnswerInSelectGroup
    /\ last.auth
    /\ last.arg.text = "3"
    /\ last.pre.group = GroupList[1]
    /\ user_data[last.u].group_id = GroupList[1]
    /\ gconv[last.u] = "SELECT_GROUP"

\* the positions of the run's calls of one operation
PositionsOf(op) == {i \in 1..Len(last.calls) : last.calls[i].op = op}

\* the run committed: create_expense returned an expense
CommittedWithDocument ==
    /\ last.pre.path # NoFile
    /\ \E i \in PositionsOf("createExpense") : last.calls[i].ok

LoggedOut == last.h = "logout" /\ last.auth

\* C37: after a logout the session holds no credential and no selected
\* group, and a credential that had been staged before the logout is never
\* moved into the session's private store afterwards
C37_LogoutRevokesStagedCredentials ==
    /\ LoggedOut => /\ user_data[last.u].access_token = NoToken
                    /\ user_data[last.u].group_id = NoGroup
    /\ \A u \in Users : user_data[u].access_token \notin hist[u].revoked

\* the latest request was a /callback that stored an access token in the
\* browser session
TokenStored ==
    /\ webLast.route = "callback"
    /\ webLast.status = 302
    /\ web[webLast.b].session.oauth2_access_token # NoToken

\* C38: the web callback stores an access token in the browser session only
\* if the request carries a state and that state is the one a preceding
\* /authorize stored in the same session; a callback without state, or in a
\* session that holds no state of /authorize, is rejected and leaves the
\* session as it was
C38_TokenOnlyForTheSessionsState ==
    /\ TokenStored =>
          /\ webLast.state # NoState
          /\ webLast.session.oauth2_state # NoState
          /\ webLast.state = webLast.session.oauth2_state
    /\ (/\ webLast.route = "callback"
        /\ state_user_id(webLast.state) = PyNone
        /\ webLast.state = NoState \/ webLast.session.oauth2_state = NoState)
       => /\ webLast.status = 400
          /\ web[webLast.b].session = webLast.session

====
